---------------------------- MODULE Spec2Model ----------------------------
(***************************************************************************)
(* A model of the signature tracing core of SigMontion:                    *)
(*   src/services/localTracer.ts   (mask, walker, order solver, post-      *)
(*                                  processing, analyzeSignatureLocal)     *)
(*   src/services/motionPlanner.ts (generateMotionPlan)                    *)
(*                                                                         *)
(* The module holds several specifications over one set of variables.      *)
(* Each specification drives one part of the program and leaves the        *)
(* variables of the other parts at their idle values:                      *)
(*   SpecDespeckle  despeckleBitmask applied to bounded masks              *)
(*   SpecOrder      optimizeStrokeOrder applied to bounded stroke lists    *)
(*   SpecTracer     analyzeSignatureLocal, one action per pipeline step    *)
(*   SpecPlanner    generateMotionPlan, one action per stroke              *)
(*                                                                         *)
(* Masks are functions over the cell indices 0..n-1, as the Uint8Array of  *)
(* the source is; all other lists are sequences (1-based), so list index i *)
(* of the source is index i+1 here.                                        *)
(***************************************************************************)
EXTENDS Integers, Sequences, FiniteSets, TLC

VARIABLES
    \* despeckleBitmask(data, width, height, minSize)
    dsPc,        \* "call" before the call, "returned" after it
    dsData,      \* the Uint8Array `data`, mutated in place
    dsInput,     \* the contents of `data` when the call was made
    dsWidth, dsHeight, dsMinSize,
    \* optimizeStrokeOrder(strokes)
    osPc,        \* "call" before the call, "returned" after it
    osStrokes,   \* the argument `strokes`
    osH1, osH2,  \* the locals h1 and h2 (neutral and biased sequence)
    osS1, osS2,  \* the locals s1 and s2 (their scores, in thousandths)
    osResult,    \* the returned list
    \* generateMotionPlan(data, canvasWidth, canvasHeight, style)
    mpPc,        \* "call", "forEach" (inside data.strokes.forEach), "returned"
    mpData,      \* the argument `data`
    mpCanvasWidth, mpCanvasHeight,
    mpStyle,     \* the argument `style`
    mpIndex,     \* the forEach index of the next stroke
    mpPaths,     \* the local `paths`
    mpCurrentTime, \* the local `currentTime`, in hundredths of a millisecond
    mpPrevEndPos,  \* the local `prevEndPos`: <<>> for null, else <<point>>
    mpResult,    \* the returned list
    \* analyzeSignatureLocal(imageSrc)
    trPc,        \* "loading", "seek" (outer loop), "walk" (inner loop),
                 \* "order", "merge", "smooth", "post", "resolve", "done"
    trImage,     \* the image behind imageSrc: width, height, RGBA data
    trPWidth, trPHeight,
    trVisited,   \* the mask `visited`: 0 background, 1 ink, 2 consumed ink
    trGlobalSearchIdx, trActive, trSafetyCounter,
    trStrokePoints, \* the list `strokePoints`, as runs of equal points
    trCurrentPos, trTracing, trStrokeSafety,
    trRawStrokes, trOrderedStrokes, trMergedStrokes, trSmoothedStrokes,
    trFinalStrokes,
    trStages,    \* history: the stages completed so far, in order
    trOutcome,   \* the promise: "pending", "resolved" or "rejected"
    trResult,    \* <<>> or <<the SignatureAnalysis handed to resolve>>
    \* the post-processing loop of analyzeSignatureLocal on its own
    ppPc,        \* "loop" (for ... of smoothedStrokes), "done"
    ppSmoothedStrokes, ppVisited, ppWidth, ppHeight,
    ppIndex,     \* the number of strokes the loop has taken
    ppDeduped, ppOnInkPoints, ppJitterFreePoints, ppFinalPoints,
                 \* the locals of the last iteration, <<>> where it did not
                 \* get to them
    ppExit,      \* how the last iteration ended: "short", "jitter",
                 \* "uncovered", "pushed" ("none" before the first)
    ppFinalStrokes,
    \* AnimationEngine.start(exportFormat)
    aePc,        \* "start", "scale" (the plan is made), "started"
    aeTargetDuration, \* this.targetDuration, in seconds
    aePaths,     \* the local `paths`
    aeAnimationEndTime,
    \* AnimationEngine: start, stop, the frames and the recording timer
    rcRafId,     \* this.rafId: "null", "scheduled" (the callback is to come),
                 \* "run" (the id of a callback that has run)
    rcMediaRecorder, \* "null", or the state of this.mediaRecorder:
                 \* "inactive", "recording"
    rcIsRecording,   \* this.isRecording
    rcExportFormat,  \* this.exportFormat
    rcTimers,    \* the timers of start that have not fired
    rcFrames,    \* the frames the loop has drawn since start
    rcStarts,    \* the calls of start so far
    rcLastCall,  \* the public method called last: "start", "stop" ("new"
                 \* before the first)
    \* App (DropZone.tsx): one item of `items` and what is awaited for it
    dzItem,      \* processed, selectedSource, analysis and status of the item
    dzPrompt,    \* whether `prompt` has text
    dzRefines,   \* the calls of refineSignature not settled
    dzEdits,     \* the calls of editSignature not settled
    dzAnalyses,  \* the calls of analyzeSignatureLocal not settled
    dzInsights,  \* the calls of generateRapidInsight not settled, each with
                 \* the `result` its callback holds
    dzRuns,      \* the calls of performAnalysis so far
    dzImages     \* the images refineSignature and editSignature have returned

dsVars == <<dsPc, dsData, dsInput, dsWidth, dsHeight, dsMinSize>>
osVars == <<osPc, osStrokes, osH1, osH2, osS1, osS2, osResult>>
mpVars == <<mpPc, mpData, mpCanvasWidth, mpCanvasHeight, mpStyle, mpIndex,
            mpPaths, mpCurrentTime, mpPrevEndPos, mpResult>>
trVars == <<trPc, trImage, trPWidth, trPHeight, trVisited, trGlobalSearchIdx,
            trActive, trSafetyCounter, trStrokePoints, trCurrentPos, trTracing,
            trStrokeSafety, trRawStrokes, trOrderedStrokes, trMergedStrokes,
            trSmoothedStrokes, trFinalStrokes, trStages, trOutcome, trResult>>
ppVars == <<ppPc, ppSmoothedStrokes, ppVisited, ppWidth, ppHeight, ppIndex,
            ppDeduped, ppOnInkPoints, ppJitterFreePoints, ppFinalPoints, ppExit,
            ppFinalStrokes>>
aeVars == <<aePc, aeTargetDuration, aePaths, aeAnimationEndTime>>
rcVars == <<rcRafId, rcMediaRecorder, rcIsRecording, rcExportFormat, rcTimers,
            rcFrames, rcStarts, rcLastCall>>
dzVars == <<dzItem, dzPrompt, dzRefines, dzEdits, dzAnalyses, dzInsights, dzRuns,
            dzImages>>
vars == <<dsVars, osVars, mpVars, trVars, ppVars, aeVars, rcVars, dzVars>>

\* The idle values of each part, for the specifications that do not drive it.
DsIdle ==
    /\ dsPc = "idle" /\ dsData = <<>> /\ dsInput = <<>>
    /\ dsWidth = 0 /\ dsHeight = 0 /\ dsMinSize = 0
OsIdle ==
    /\ osPc = "idle" /\ osStrokes = <<>> /\ osResult = <<>>
    /\ osH1 = <<>> /\ osH2 = <<>> /\ osS1 = 0 /\ osS2 = 0
MpIdle ==
    /\ mpPc = "idle" /\ mpData = <<>> /\ mpStyle = <<>>
    /\ mpCanvasWidth = 0 /\ mpCanvasHeight = 0 /\ mpIndex = 0
    /\ mpPaths = <<>> /\ mpCurrentTime = 0 /\ mpPrevEndPos = <<>>
    /\ mpResult = <<>>
TrIdle ==
    /\ trPc = "idle" /\ trImage = <<>> /\ trPWidth = 0 /\ trPHeight = 0
    /\ trVisited = <<>> /\ trGlobalSearchIdx = 0 /\ trActive = FALSE
    /\ trSafetyCounter = 0 /\ trStrokePoints = <<>> /\ trCurrentPos = <<>>
    /\ trTracing = FALSE /\ trStrokeSafety = 0 /\ trRawStrokes = <<>>
    /\ trOrderedStrokes = <<>> /\ trMergedStrokes = <<>>
    /\ trSmoothedStrokes = <<>> /\ trFinalStrokes = <<>> /\ trStages = <<>>
    /\ trOutcome = "pending" /\ trResult = <<>>
PpIdle ==
    /\ ppPc = "idle" /\ ppSmoothedStrokes = <<>> /\ ppVisited = <<>>
    /\ ppWidth = 0 /\ ppHeight = 0 /\ ppIndex = 0
    /\ ppDeduped = <<>> /\ ppOnInkPoints = <<>> /\ ppJitterFreePoints = <<>>
    /\ ppFinalPoints = <<>> /\ ppExit = "none" /\ ppFinalStrokes = <<>>
AeIdle ==
    /\ aePc = "idle" /\ aeTargetDuration = 0 /\ aePaths = <<>>
    /\ aeAnimationEndTime = 0
RcIdle ==
    /\ rcRafId = "idle" /\ rcMediaRecorder = "idle" /\ rcIsRecording = FALSE
    /\ rcExportFormat = "idle" /\ rcTimers = 0 /\ rcFrames = 0
    /\ rcStarts = 0 /\ rcLastCall = "idle"
DzIdle ==
    /\ dzItem = <<>> /\ dzPrompt = FALSE /\ dzRefines = 0 /\ dzEdits = 0
    /\ dzAnalyses = {} /\ dzInsights = {} /\ dzRuns = 0 /\ dzImages = 0

(***************************************************************************)
(* Generic helpers                                                         *)
(***************************************************************************)
Min(a, b) == IF a < b THEN a ELSE b
Max(a, b) == IF a > b THEN a ELSE b
Abs(a) == IF a < 0 THEN -a ELSE a

\* Sum of f(i) over lo..hi, by halving, so that long lists stay shallow.
RECURSIVE SumRange(_, _, _)
SumRange(f, lo, hi) ==
    IF lo > hi THEN 0
    ELSE IF lo = hi THEN f[lo]
    ELSE LET mid == (lo + hi) \div 2
         IN  SumRange(f, lo, mid) + SumRange(f, mid + 1, hi)

\* Array.prototype.filter by index: the elements of s whose index is in keep,
\* in their original order.
FilterIdx(s, keep) ==
    [j \in 1..Cardinality(keep) |->
        s[CHOOSE i \in keep : Cardinality({k \in keep : k < i}) = j - 1]]

\* Array.prototype.reverse
Reverse(s) == [i \in 1..Len(s) |-> s[Len(s) + 1 - i]]

(***************************************************************************)
(* despeckleBitmask                                                        *)
(***************************************************************************)
\* The four neighbours of cell idx, in the source's order (left, right, up,
\* down), those outside the image dropped.
Neighbors(idx, width, height) ==
    LET cx == idx % width
        cy == idx \div width
        all == << [x |-> cx - 1, y |-> cy], [x |-> cx + 1, y |-> cy],
                  [x |-> cx, y |-> cy - 1], [x |-> cx, y |-> cy + 1] >>
    IN  SelectSeq(all, LAMBDA n : n.x >= 0 /\ n.x < width /\ n.y >= 0 /\ n.y < height)

\* The inner `for (const n of neighbors)` loop: push every unseen ink neighbour.
RECURSIVE PushNeighbors(_, _, _, _, _)
PushNeighbors(data, width, ns, stack, seen) ==
    IF ns = <<>> THEN [stack |-> stack, seen |-> seen]
    ELSE LET nIdx == Head(ns).y * width + Head(ns).x
         IN  IF data[nIdx] = 1 /\ nIdx \notin seen
             THEN PushNeighbors(data, width, Tail(ns), Append(stack, nIdx), seen \cup {nIdx})
             ELSE PushNeighbors(data, width, Tail(ns), stack, seen)

\* `while (ptr < stack.length)`
Filling(s) == s.ptr < Len(s.stack)

\* An iteration of the `while (ptr < stack.length)` loop: the cell at ptr is
\* popped and pushes its unseen ink neighbours.
PopCell(data, width, height, s) ==
    LET idx == s.stack[s.ptr + 1]
        r   == PushNeighbors(data, width, Neighbors(idx, width, height), s.stack, s.seen)
    IN  [stack |-> r.stack, ptr |-> s.ptr + 1, seen |-> r.seen]

\* The first n iterations of the loop, or all of them when it ends sooner:
\* the first half of them, and the rest if the loop still runs.
RECURSIVE PopCells(_, _, _, _, _)
PopCells(data, width, height, s, n) ==
    IF n = 0 \/ ~Filling(s) THEN s
    ELSE IF n = 1 THEN PopCell(data, width, height, s)
    ELSE LET half == PopCells(data, width, height, s, n \div 2)
         IN  IF Filling(half)
             THEN PopCells(data, width, height, half, n - n \div 2)
             ELSE half

\* The `while (ptr < stack.length)` loop; ptr counts the cells popped so far.
\* Every iteration pops another cell, so the loop has ended after as many
\* iterations as the image has cells.  count and componentIndices of the
\* source are Len(stack) and stack when the loop ends.
FloodFill(data, width, height, stack, ptr, seen) ==
    PopCells(data, width, height, [stack |-> stack, ptr |-> ptr, seen |-> seen],
             width * height)

\* `if (count < minSize)`
TooSmall_AtMost(count, minSize) == count <= minSize

TooSmall(count, minSize) == count < minSize

\* The outer `for (let i = 0; i < data.length; i++)` loop, from cell i on:
\* the loop passes over the cells that are not ink or were seen, and fills
\* from the first cell j that is ink and was not seen.
RECURSIVE DespeckleFrom(_, _, _, _, _, _, _)
DespeckleFrom(data, width, height, minSize, n, i, seen) ==
    IF \A c \in i..(n - 1) : data[c] # 1 \/ c \in seen THEN data
    ELSE LET j == CHOOSE c \in i..(n - 1) :
                      /\ data[c] = 1 /\ c \notin seen
                      /\ \A d \in i..(c - 1) : data[d] # 1 \/ d \in seen
             r == FloodFill(data, width, height, <<j>>, 0, seen \cup {j})
             component == {r.stack[k] : k \in 1..Len(r.stack)}
             cleared == IF TooSmall(Len(r.stack), minSize)
                        THEN [c \in DOMAIN data |-> IF c \in component THEN 0 ELSE data[c]]
                        ELSE data
         IN  DespeckleFrom(cleared, width, height, minSize, n, j + 1, r.seen)

despeckleBitmask(data, width, height, minSize) ==
    DespeckleFrom(data, width, height, minSize, width * height, 0, {})

(***************************************************************************)
(* Numbers.  The source computes in IEEE doubles; the model computes the   *)
(* same quantities exactly where they are rational (a centroid is kept as  *)
(* its sum and its count, a cost as a mixed number) and to three decimals, *)
(* rounded down, where they are square roots.  Roundoff of the doubles is  *)
(* not modelled.                                                           *)
(***************************************************************************)
\* `distSq`
distSq(p1, p2) == (p1.x - p2.x) * (p1.x - p2.x) + (p1.y - p2.y) * (p1.y - p2.y)

\* floor(sqrt(n)) by bisection on lo..hi (lo*lo <= n < (hi+1)*(hi+1)).
RECURSIVE ISqrtIn(_, _, _)
ISqrtIn(n, lo, hi) ==
    IF lo >= hi THEN lo
    ELSE LET mid == (lo + hi + 1) \div 2
         IN  IF mid * mid <= n THEN ISqrtIn(n, mid, hi) ELSE ISqrtIn(n, lo, mid - 1)

ISqrt(n) == ISqrtIn(n, 0, Min(n, 46340))

\* One more decimal digit of a square root (the schoolbook method): from the
\* root r so far and the remainder rem, the next root and remainder.
NextDigit(r, rem) ==
    LET t == CHOOSE d \in 0..9 :
                 /\ (20 * r + d) * d <= 100 * rem
                 /\ (d = 9 \/ (20 * r + d + 1) * (d + 1) > 100 * rem)
    IN  [r |-> 10 * r + t, rem |-> 100 * rem - (20 * r + t) * t]

\* `Math.sqrt(n)` in thousandths, rounded down: floor(1000 * sqrt(n)).
SqrtMilli(n) ==
    LET r0 == ISqrt(n)
        d1 == NextDigit(r0, n - r0 * r0)
        d2 == NextDigit(d1.r, d1.rem)
        d3 == NextDigit(d2.r, d2.rem)
    IN  d3.r

(***************************************************************************)
(* optimizeStrokeOrder                                                     *)
(***************************************************************************)
\* `getMeta`: cx and cy are sumX / n and sumY / n.
getMeta(s) ==
    LET pts == s.points
        n   == Len(pts)
        xs  == {pts[i].x : i \in 1..n}
        ys  == {pts[i].y : i \in 1..n}
        minX == CHOOSE v \in xs : \A u \in xs : v <= u
        maxX == CHOOSE v \in xs : \A u \in xs : v >= u
        minY == CHOOSE v \in ys : \A u \in ys : v <= u
        maxY == CHOOSE v \in ys : \A u \in ys : v >= u
    IN  [stroke |-> s,
         sumX |-> SumRange([i \in 1..n |-> pts[i].x], 1, n),
         sumY |-> SumRange([i \in 1..n |-> pts[i].y], 1, n),
         n |-> n,
         minX |-> minX, maxX |-> maxX, minY |-> minY, maxY |-> maxY,
         width |-> maxX - minX, height |-> maxY - minY,
         start |-> pts[1], end |-> pts[n]]

\* `isLow`: cy > globalMinY + totalH * 0.65, where cy = q + r / n and the
\* right-hand side is t / 100; that is 100 * r / n > t - 100 * q.
IsLow(q, r, n, t) ==
    IF t - 100 * q < 0 THEN TRUE
    ELSE IF t - 100 * q >= 100 THEN FALSE
    ELSE 100 * r > (t - 100 * q) * n

\* `underlineIndices`: the (1-based) indices of the strokes that are wide
\* (width > 0.35 totalW), low (cy > globalMinY + 0.65 totalH) and flat
\* (width > 2.5 height).
IsUnderline(m, globalMinY, totalW, totalH) ==
    /\ 100 * m.width > 35 * totalW
    /\ IsLow(m.sumY \div m.n, m.sumY % m.n, m.n, 100 * globalMinY + 65 * totalH)
    /\ 2 * m.width > 5 * m.height

underlineIndices(strokes) ==
    LET meta == [i \in 1..Len(strokes) |-> getMeta(strokes[i])]
        idx  == 1..Len(strokes)
        globalMinX == CHOOSE v \in {meta[i].minX : i \in idx} : \A i \in idx : v <= meta[i].minX
        globalMaxX == CHOOSE v \in {meta[i].maxX : i \in idx} : \A i \in idx : v >= meta[i].maxX
        globalMinY == CHOOSE v \in {meta[i].minY : i \in idx} : \A i \in idx : v <= meta[i].minY
        globalMaxY == CHOOSE v \in {meta[i].maxY : i \in idx} : \A i \in idx : v >= meta[i].maxY
    IN  {i \in idx : IsUnderline(meta[i], globalMinY, globalMaxX - globalMinX,
                                 globalMaxY - globalMinY)}

SortByMinX_Descending(pool) ==
    LET before(i) == {j \in 1..Len(pool) :
                         \/ pool[j].minX > pool[i].minX
                         \/ pool[j].minX = pool[i].minX /\ j < i}
    IN  [k \in 1..Len(pool) |->
            pool[CHOOSE i \in 1..Len(pool) : Cardinality(before(i)) = k - 1]]

\* `pool.sort((a, b) => a.minX - b.minX)`: ascending minX, equal keys in
\* their original order (Array.prototype.sort is stable).
SortByMinX(pool) ==
    LET before(i) == {j \in 1..Len(pool) :
                         \/ pool[j].minX < pool[i].minX
                         \/ pool[j].minX = pool[i].minX /\ j < i}
    IN  [k \in 1..Len(pool) |->
            pool[CHOOSE i \in 1..Len(pool) : Cardinality(before(i)) = k - 1]]

\* A reversal of the points that leaves start and end as they were.
ReverseMeta_Unswapped(m) ==
    [m EXCEPT !.stroke = [m.stroke EXCEPT !.points = Reverse(m.stroke.points)]]

\* `winner.stroke.points.reverse(); swap(winner.start, winner.end)`
ReverseMeta(m) ==
    [m EXCEPT !.stroke = [m.stroke EXCEPT !.points = Reverse(m.stroke.points)],
              !.start = m.end, !.end = m.start]

\* A cost d * mult + 5 * yDiff as the mixed number int + num / den, where
\* 5 * yDiff = y5 / den.
Cost(d, mult, y5, den) ==
    [int |-> d * mult + (y5 \div den), num |-> y5 % den, den |-> den]

CostLess(a, b) ==
    \/ a.int < b.int
    \/ a.int = b.int /\ a.num * b.den < b.num * a.den

\* costStart and costEnd of candidate cand after curr.
CandCosts(curr, cand, useBias) ==
    LET dStart == distSq(curr.end, cand.start)
        dEnd   == distSq(curr.end, cand.end)
        backwardThresh == 500
        isBack == cand.sumX < cand.n * (curr.end.x - backwardThresh)
        den    == IF useBias THEN cand.n * curr.n ELSE 1
        y5     == IF useBias THEN 5 * Abs(cand.sumY * curr.n - curr.sumY * cand.n) ELSE 0
        mS     == IF useBias /\ isBack /\ dStart > 2500 THEN 5 ELSE 1
        mE     == IF useBias /\ isBack /\ dEnd > 2500 THEN 5 ELSE 1
    IN  [start |-> Cost(dStart, mS, y5, den), end |-> Cost(dEnd, mE, y5, den)]

\* The `for (let i = 0; i < pool.length; i++)` loop from candidate i on; best
\* is [idx, cost, reverse], idx = 0 standing for bestIdx = -1 (bestCost is
\* then Infinity).
RECURSIVE ScanPool(_, _, _, _, _)
ScanPool(pool, i, curr, useBias, best) ==
    IF i > Len(pool) THEN best
    ELSE LET c  == CandCosts(curr, pool[i], useBias)
             b1 == IF best.idx = 0 \/ CostLess(c.start, best.cost)
                   THEN [idx |-> i, cost |-> c.start, reverse |-> FALSE]
                   ELSE best
             b2 == IF CostLess(c.end, b1.cost)
                   THEN [idx |-> i, cost |-> c.end, reverse |-> TRUE]
                   ELSE b1
         IN  ScanPool(pool, i + 1, curr, useBias, b2)

Splice_First(pool, i) == Tail(pool)

\* `pool.splice(bestIdx, 1)`
Splice(pool, i) == [k \in 1..(Len(pool) - 1) |-> IF k < i THEN pool[k] ELSE pool[k + 1]]

\* The `while (pool.length > 0)` loop.
RECURSIVE SolveLoop(_, _, _, _)
SolveLoop(pool, curr, result, useBias) ==
    IF Len(pool) = 0 THEN result
    ELSE LET best == ScanPool(pool, 1, curr, useBias,
                              [idx |-> 0, cost |-> Cost(0, 1, 0, 1), reverse |-> FALSE])
         IN  IF best.idx # 0
             THEN LET winner == IF best.reverse THEN ReverseMeta(pool[best.idx])
                                ELSE pool[best.idx]
                  IN  SolveLoop(Splice(pool, best.idx), winner,
                                Append(result, winner.stroke), useBias)
             ELSE result

\* `if (curr.end.x < curr.start.x && curr.width > curr.height)`
SeedReversed(m) == m.end.x < m.start.x /\ m.width > m.height

solve(inputStrokes, useBias) ==
    IF Len(inputStrokes) = 0 THEN <<>>
    ELSE LET pool == SortByMinX([i \in 1..Len(inputStrokes) |-> getMeta(inputStrokes[i])])
             curr == IF SeedReversed(pool[1]) THEN ReverseMeta(pool[1]) ELSE pool[1]
         IN  SolveLoop(Tail(pool), curr, <<curr.stroke>>, useBias)

\* `if (p2.x < p1.x - 100) d += 50`
Regression(p1, p2) == p2.x < p1.x - 100

\* `getScore`, in thousandths.
getScore(seq) ==
    LET n == Len(seq)
        step == [i \in 1..(n - 1) |->
                    LET p1 == seq[i].points[Len(seq[i].points)]
                        p2 == seq[i + 1].points[1]
                    IN  SqrtMilli(distSq(p1, p2))
                        + (IF Regression(p1, p2) THEN 50000 ELSE 0)]
    IN  SumRange(step, 1, n - 1)

\* `(s2 < s1 * 1.3)`
BiasedWins_Lower(s1, s2) == s2 < s1

BiasedWins(s1, s2) == 10 * s2 < 13 * s1

mainStrokes(strokes) ==
    FilterIdx(strokes, (1..Len(strokes)) \ underlineIndices(strokes))

underlineStrokes(strokes) ==
    FilterIdx(strokes, underlineIndices(strokes))

\* The body of optimizeStrokeOrder with its locals; the deep clones of the
\* source are the values themselves here.
OrderRecord(h1, h2, s1, s2, underlines) ==
    [h1 |-> h1, h2 |-> h2, s1 |-> s1, s2 |-> s2,
     result |-> (IF BiasedWins(s1, s2) THEN h2 ELSE h1) \o underlines]

OrderScored(h1, h2, underlines) ==
    OrderRecord(h1, h2, getScore(h1), getScore(h2), underlines)

OrderLocals(strokes) ==
    IF Len(strokes) = 0
    THEN [h1 |-> <<>>, h2 |-> <<>>, s1 |-> 0, s2 |-> 0, result |-> <<>>]
    ELSE OrderScored(solve(mainStrokes(strokes), FALSE),
                     solve(mainStrokes(strokes), TRUE),
                     underlineStrokes(strokes))

optimizeStrokeOrder(strokes) == OrderLocals(strokes).result

(***************************************************************************)
(* SpecOrder: optimizeStrokeOrder on short lists of strokes                *)
(***************************************************************************)
Pt(x, y) == [x |-> x, y |-> y]
Stk(pts) == [points |-> pts]

\* The strokes the lists are drawn from: strokes on a 300 x 400 lattice, so
\* that most distances between end points are whole numbers.  They hold a
\* chain of touching strokes with an underline in the middle, strokes that
\* run right to left, and fragments that the two cost variants order
\* differently.
OsPool ==
    { Stk(<<Pt(0, 0), Pt(300, 800)>>),
      Stk(<<Pt(300, 800), Pt(1200, 800)>>),
      Stk(<<Pt(1200, 800), Pt(1200, 0)>>),
      Stk(<<Pt(0, 0), Pt(600, 400)>>),
      Stk(<<Pt(900, 800), Pt(1200, 400)>>),
      Stk(<<Pt(900, 0), Pt(1200, 400)>>),
      Stk(<<Pt(0, 0), Pt(300, 0)>>),
      Stk(<<Pt(300, 0), Pt(900, 0)>>),
      Stk(<<Pt(900, 800), Pt(900, 400), Pt(900, 0)>>) }

\* Longest list of strokes tried.
MaxStrokes == 3

OsInit ==
    /\ osPc = "call"
    /\ osStrokes \in UNION {[1..k -> OsPool] : k \in 0..MaxStrokes}
    /\ osH1 = <<>> /\ osH2 = <<>> /\ osS1 = 0 /\ osS2 = 0
    /\ osResult = <<>>
    /\ DsIdle /\ MpIdle /\ TrIdle /\ PpIdle /\ AeIdle /\ RcIdle /\ DzIdle

OptimizeOrder ==
    /\ osPc = "call"
    /\ \E l \in {OrderLocals(osStrokes)} :
           /\ osH1' = l.h1 /\ osH2' = l.h2
           /\ osS1' = l.s1 /\ osS2' = l.s2
           /\ osResult' = l.result
    /\ osPc' = "returned"
    /\ UNCHANGED osStrokes
    /\ UNCHANGED <<dsVars, mpVars, trVars, ppVars, aeVars, rcVars, dzVars>>

OsNext == OptimizeOrder

SpecOrder == OsInit /\ [][OsNext]_vars

(***************************************************************************)
(* Claims about optimizeStrokeOrder                                        *)
(***************************************************************************)
\* The main strokes of the result: all but the trailing decorations.
OsChosen == SubSeq(osResult, 1, Len(osH1))

LeftToRightChain(strokes) ==
    /\ Len(strokes) >= 1
    /\ \A i \in 1..Len(strokes) :
          \A j \in 1..(Len(strokes[i].points) - 1) :
              strokes[i].points[j].x <= strokes[i].points[j + 1].x
    /\ \A i \in 1..(Len(strokes) - 1) :
          strokes[i].points[Len(strokes[i].points)] = strokes[i + 1].points[1]

\* C9 as stated: a left-to-right chain of touching strokes is returned in the
\* same order and with the same point direction.
C9_ChainReproduced ==
    (osPc = "returned" /\ LeftToRightChain(osStrokes)) => osResult = osStrokes

\* No stroke classified as a decoration stands before a main stroke.
DecorationsLast(strokes) ==
    \A i \in underlineIndices(strokes) :
        \A j \in (1..Len(strokes)) \ underlineIndices(strokes) : j < i

\* C9 as amended: a left-to-right chain of touching strokes in which no
\* decoration stands before a main stroke is returned in the same order and
\* with the same point direction.
C9_ChainReproducedDecorationsLast ==
    (osPc = "returned" /\ LeftToRightChain(osStrokes) /\ DecorationsLast(osStrokes))
        => osResult = osStrokes

\* A chain of three strokes came back unchanged.
C9_Witness ==
    /\ osPc = "returned"
    /\ LeftToRightChain(osStrokes) /\ DecorationsLast(osStrokes)
    /\ Len(osStrokes) >= 3
    /\ osStrokes[1] # osStrokes[2]
    /\ osResult = osStrokes

\* out is a rearrangement of in, each stroke as it was or reversed.
IsRearrangement(out, in) ==
    /\ Len(out) = Len(in)
    /\ \E f \in [1..Len(in) -> 1..Len(in)] :
          /\ \A a, b \in 1..Len(in) : a # b => f[a] # f[b]
          /\ \A a \in 1..Len(in) :
                \/ out[a] = in[f[a]]
                \/ out[a] = [in[f[a]] EXCEPT !.points = Reverse(in[f[a]].points)]

\* C10: the result is a permutation of the input (each stroke once, as it
\* was or exactly reversed); the decorations come after all main strokes, in
\* their original order and unreversed.
C10_Permutation ==
    osPc = "returned" =>
        LET n == Len(osStrokes)
            k == Cardinality(underlineIndices(osStrokes))
        IN  /\ Len(osResult) = n
            /\ IsRearrangement(osResult, osStrokes)
            /\ IsRearrangement(SubSeq(osResult, 1, n - k), mainStrokes(osStrokes))
            /\ SubSeq(osResult, n - k + 1, n) = underlineStrokes(osStrokes)

\* A call that moved a decoration to the end and reversed a main stroke.
C10_Witness ==
    /\ osPc = "returned"
    /\ \E i \in underlineIndices(osStrokes) : i < Len(osStrokes)
    /\ \E a \in 1..Len(osResult) :
          /\ \A b \in 1..Len(osStrokes) : osResult[a] # osStrokes[b]
          /\ \E b \in 1..Len(osStrokes) :
                osResult[a].points = Reverse(osStrokes[b].points)

(***************************************************************************)
(* SpecDespeckle: despeckleBitmask on every binary mask of a small image   *)
(***************************************************************************)
\* Image sizes of the despeckle harness, as <<width, height>>.
DsSizes == { <<4, 3>>, <<3, 3>>, <<5, 2>> }
\* Largest minSize tried.
MaxMinSize == 4

BinaryMasks(width, height) == [0..(width * height - 1) -> {0, 1}]

DsInit ==
    /\ dsPc = "call"
    /\ \E sz \in DsSizes :
         /\ dsWidth = sz[1]
         /\ dsHeight = sz[2]
         /\ dsData \in BinaryMasks(sz[1], sz[2])
    /\ dsInput = dsData
    /\ dsMinSize \in 0..MaxMinSize
    /\ OsIdle /\ MpIdle /\ TrIdle /\ PpIdle /\ AeIdle /\ RcIdle /\ DzIdle

Despeckle ==
    /\ dsPc = "call"
    /\ dsData' = despeckleBitmask(dsData, dsWidth, dsHeight, dsMinSize)
    /\ dsPc' = "returned"
    /\ UNCHANGED <<dsInput, dsWidth, dsHeight, dsMinSize>>
    /\ UNCHANGED <<osVars, mpVars, trVars, ppVars, aeVars, rcVars, dzVars>>

DsNext == Despeckle

SpecDespeckle == DsInit /\ [][DsNext]_vars

(***************************************************************************)
(* Claims about despeckleBitmask                                           *)
(***************************************************************************)
\* Two cells that share an edge.
EdgeAdjacent(a, b, width) ==
    \/ (a \div width) = (b \div width) /\ Abs((a % width) - (b % width)) = 1
    \/ (a % width) = (b % width) /\ Abs((a \div width) - (b \div width)) = 1

\* The cells of `cells` reachable from `from` through edge-adjacent cells.
RECURSIVE Grow(_, _, _)
Grow(from, cells, width) ==
    LET more == from \cup {b \in cells : \E a \in from : EdgeAdjacent(a, b, width)}
    IN  IF more = from THEN from ELSE Grow(more, cells, width)

InkCells(mask) == {c \in DOMAIN mask : mask[c] = 1}

\* The 4-connected ink component of cell c in mask.
ComponentOf(mask, c, width) == Grow({c}, InkCells(mask), width)

\* C4: after despeckleBitmask every remaining ink cell lies in a 4-connected
\* ink component of at least minSize cells; every component of the input with
\* fewer than minSize cells is zeroed entirely, every component with at least
\* minSize cells is left as it was, and no background cell becomes ink.
C4_DespeckleCorrect ==
    dsPc = "returned" =>
        /\ \A c \in InkCells(dsData) :
              Cardinality(ComponentOf(dsData, c, dsWidth)) >= dsMinSize
        /\ \A c \in InkCells(dsInput) :
              LET comp == ComponentOf(dsInput, c, dsWidth)
              IN  IF Cardinality(comp) < dsMinSize
                  THEN \A d \in comp : dsData[d] = 0
                  ELSE \A d \in comp : dsData[d] = 1
        /\ \A c \in DOMAIN dsInput : dsInput[c] = 0 => dsData[c] = 0
        /\ Cardinality(InkCells(dsData)) <= Cardinality(InkCells(dsInput))

\* A call that removed one component and kept another one.
C4_Witness ==
    /\ dsPc = "returned"
    /\ \E c \in InkCells(dsInput) : dsData[c] = 0
    /\ \E c \in InkCells(dsInput) : dsData[c] = 1

(***************************************************************************)
(* generateMotionPlan                                                      *)
(*                                                                         *)
(* Units.  Canvas positions are kept in tenths of a pixel, times in        *)
(* hundredths of a millisecond (so the 0.01 ms floor of a step is 1),      *)
(* distances in 1/10000 pixel, angles in thousandths of a radian, line     *)
(* widths and the positions of the emitted points in thousandths of a      *)
(* pixel, opacities in thousandths.  Style fields are scaled integers:     *)
(* base_ms_per_px in hundredths, pressure_scale and inertia_factor in      *)
(* tenths, micro_tremor_amp_px in hundredths, micro_tremor_freq_hz in Hz.  *)
(* Math.acos and Math.sin / Math.cos are read from tables.  The styles of  *)
(* SpecPlanner hold all their fields, as HandwritingStyle declares them;   *)
(* those of SpecPlannerStyles lack some.                                   *)
(***************************************************************************)
SCALE_FACTOR == 10000

\* The number that stands for NaN, and for the `undefined` that reading a
\* missing field gives: in arithmetic undefined becomes NaN, and both are
\* falsy and fail every comparison.  It lies below every number of a plan,
\* so that `NaN > 0` is false as it is.
NaN == -1000000000

\* `a + b` and `a += b`
Plus(a, b) == IF a = NaN \/ b = NaN THEN NaN ELSE a + b

\* `style.<field>`
Field(style, field) == IF field \in DOMAIN style THEN style[field] ELSE NaN

\* `style ? style.base_ms_per_px : 1.2` and the other physics constants.
baseMsPerPx(style) == IF style.present THEN Field(style, "base_ms_per_px") ELSE 120
baseWidthScale(style) ==
    IF style.present
    THEN (IF Field(style, "pressure_scale") \notin {0, NaN}
          THEN Field(style, "pressure_scale")
          ELSE 10)
    ELSE 10
fallbackWidth(style) == 150 * baseWidthScale(style)
inertia(style) == IF style.present THEN Field(style, "inertia_factor") ELSE 0
tremorAmp(style) == IF style.present THEN Field(style, "micro_tremor_amp_px") ELSE 0
tremorFreq(style) == IF style.present THEN Field(style, "micro_tremor_freq_hz") ELSE 0

\* `mappedPoints`: x and y scaled to the canvas, z and a carried over.
MapPoint(p, canvasWidth, canvasHeight) ==
    [p EXCEPT !.x = (p.x * canvasWidth * 10) \div SCALE_FACTOR,
              !.y = (p.y * canvasHeight * 10) \div SCALE_FACTOR]

mappedPoints(rawPoints, canvasWidth, canvasHeight) ==
    [i \in 1..Len(rawPoints) |-> MapPoint(rawPoints[i], canvasWidth, canvasHeight)]

\* `dist`, in 1/10000 pixel.
dist(p1, p2) == SqrtMilli(distSq(p1, p2))

\* The loop of `filterRedundantPoints` from index i on: a point is kept when
\* it is more than 0.1 px^2 (10 tenths squared) from the last kept one.
RECURSIVE FilterLoop(_, _, _)
FilterLoop(points, i, result) ==
    IF i > Len(points) THEN result
    ELSE FilterLoop(points, i + 1,
                    IF distSq(points[i], result[Len(result)]) > 10
                    THEN Append(result, points[i])
                    ELSE result)

\* A filter that leaves the last source point to the loop.
KeepLast_Never(result, lastSrc) == result

\* The last source point is appended when its position differs from the
\* last kept one.
KeepLast(result, lastSrc) ==
    IF result[Len(result)].x # lastSrc.x \/ result[Len(result)].y # lastSrc.y
    THEN Append(result, lastSrc)
    ELSE result

filterRedundantPoints(points) ==
    IF Len(points) < 2 THEN points
    ELSE KeepLast(FilterLoop(points, 2, <<points[1]>>), points[Len(points)])

liftTime_Negative(d) == 0 - (Min(d \div 200, 25000) + 5000)

\* `Math.min(d * 0.5, 250) + 50`
liftTime(d) == Min(d \div 200, 25000) + 5000

PenLift_AtThreshold(first, prevEndPos) ==
    IF Len(prevEndPos) = 0 THEN 0
    ELSE IF dist(first, prevEndPos[1]) >= 300000
         THEN liftTime(dist(first, prevEndPos[1]))
         ELSE 0

\* The pen lift added to the clock before a stroke that starts at `first`.
PenLift(first, prevEndPos) ==
    IF Len(prevEndPos) = 0 THEN 0
    ELSE IF dist(first, prevEndPos[1]) > 300000
         THEN liftTime(dist(first, prevEndPos[1]))
         ELSE 0

\* Math.sin of a phase given in sixteenths of a turn, in thousandths.
SinTable == <<0, 383, 707, 924, 1000, 924, 707, 383,
              0, -383, -707, -924, -1000, -924, -707, -383>>

\* The phase tSec * tremorFreq, in sixteenths of a turn.
Phase(currentTime, freq) == ((currentTime * freq * 16) \div 100000) % 16

\* tx and ty, in thousandths of a pixel.
Tremor(style, currentTime) ==
    IF tremorAmp(style) > 0 /\ tremorFreq(style) > 0 /\ currentTime = NaN
    THEN [tx |-> NaN, ty |-> NaN]
    ELSE IF tremorAmp(style) > 0 /\ tremorFreq(style) > 0
    THEN [tx |-> (tremorAmp(style)
                    * SinTable[Phase(currentTime, tremorFreq(style)) + 1]) \div 100,
          ty |-> (tremorAmp(style)
                    * SinTable[((Phase(currentTime, tremorFreq(style)) + 4) % 16) + 1]) \div 100]
    ELSE [tx |-> 0, ty |-> 0]

\* `pointWidth`, in thousandths of a pixel.
pointWidth(p, style, canvasWidth) ==
    IF "z" \in DOMAIN p
    THEN (p.z * canvasWidth * baseWidthScale(style)) \div 100
    ELSE fallbackWidth(style)

pointOpacity(p) == IF "a" \in DOMAIN p THEN p.a ELSE 1000

\* The PhysicsPoint pushed for p at the clock value currentTime.
PhysicsPoint(p, t, currentTime, style, canvasWidth) ==
    [x |-> Plus(p.x * 100, t.tx), y |-> Plus(p.y * 100, t.ty), time |-> currentTime,
     lineWidth |-> pointWidth(p, style, canvasWidth),
     opacity |-> pointOpacity(p)]

\* Math.acos at -1, -0.9 .. 1, in thousandths of a radian.
AcosTable == <<3142, 2691, 2498, 2346, 2214, 2094, 1982, 1875, 1772, 1671,
               1571, 1471, 1369, 1266, 1159, 1047, 927, 795, 644, 451, 0>>

\* Math.acos of a cosine given in hundredths (-100..100), interpolated
\* between the entries of the table.
Acos(c) ==
    IF c = 100 THEN 0
    ELSE AcosTable[((c + 100) \div 10) + 1]
         - (((c + 100) % 10)
              * (AcosTable[((c + 100) \div 10) + 1] - AcosTable[((c + 100) \div 10) + 2]))
           \div 10

\* `Math.max(-1, Math.min(1, dot / (mag1 * mag2)))`, in hundredths; the
\* magnitudes are in 1/10000 pixel.
cosTheta(dot, mag1, mag2) ==
    Max(-100, Min(100, (dot * 100) \div Max(1, ((mag1 \div 100) * (mag2 \div 100)) \div 100)))

\* The angle between the last two segments before point i.
TurnAngle(pts, i) ==
    Acos(cosTheta((pts[i - 1].x - pts[i - 2].x) * (pts[i].x - pts[i - 1].x)
                    + (pts[i - 1].y - pts[i - 2].y) * (pts[i].y - pts[i - 1].y),
                  dist(pts[i - 1], pts[i - 2]), dist(pts[i], pts[i - 1])))

\* `speedPenalty` for point i (1-based), in thousandths: 1 + angle * inertia
\* from the third point on when the style has inertia and both segments are
\* longer than 0.001 px.
speedPenalty(pts, i, style) ==
    IF i > 2 /\ inertia(style) > 0
       /\ dist(pts[i - 1], pts[i - 2]) > 10 /\ dist(pts[i], pts[i - 1]) > 10
    THEN 1000 + (TurnAngle(pts, i) * inertia(style)) \div 10
    ELSE 1000

\* `Math.max(0.01, d * baseMsPerPx * speedPenalty)`, which is NaN when the
\* product is.
StepDt(pts, i, style) ==
    IF baseMsPerPx(style) = NaN THEN NaN
    ELSE Max(1, (((dist(pts[i], pts[i - 1]) * baseMsPerPx(style)) \div 10000)
                   * speedPenalty(pts, i, style)) \div 1000)

\* The traversal loop over processedPoints from point i on; the result is
\* the PhysicsPoints and the clock after the last one.
RECURSIVE Traverse(_, _, _, _, _, _)
Traverse(pts, i, currentTime, physicsPoints, style, canvasWidth) ==
    IF i > Len(pts) THEN [points |-> physicsPoints, time |-> currentTime]
    ELSE IF i = 1
    THEN Traverse(pts, 2, currentTime,
                  <<PhysicsPoint(pts[1], Tremor(style, currentTime),
                                 currentTime, style, canvasWidth)>>,
                  style, canvasWidth)
    ELSE Traverse(pts, i + 1, Plus(currentTime, StepDt(pts, i, style)),
                  Append(physicsPoints,
                         PhysicsPoint(pts[i],
                                      Tremor(style, Plus(currentTime, StepDt(pts, i, style))),
                                      Plus(currentTime, StepDt(pts, i, style)),
                                      style, canvasWidth)),
                  style, canvasWidth)

\* Paths numbered from 1.
StrokePath_IdFromOne(index, t, startTime) ==
    [id |-> index + 1, points |-> t.points, startTime |-> startTime, endTime |-> t.time]

StrokePath_EndAtStart(index, t, startTime) ==
    [id |-> index, points |-> t.points, startTime |-> startTime, endTime |-> startTime]

\* `paths.push({ id, points: physicsPoints, startTime, endTime: currentTime })`;
\* the id stroke-<index> is kept as the index.
StrokePath(index, t, startTime) ==
    [id |-> index, points |-> t.points, startTime |-> startTime, endTime |-> t.time]

(***************************************************************************)
(* SpecPlanner: generateMotionPlan, one action per stroke of data.strokes  *)
(***************************************************************************)
PtZ(x, y, z, a) == [x |-> x, y |-> y, z |-> z, a |-> a]

\* The strokes the plans are made of: a straight stroke with thickness and
\* opacity, a stroke with a right-angle turn that starts where the first
\* ends, a stroke that turns back on itself, a stroke far from the others, a
\* stroke of one point, a stroke whose middle points are redundant, a
\* stroke of two equal points, and three strokes that start 29, 30 and 31
\* pixels from the end of the first one on the canvas of width 400.
MpPool ==
    { Stk(<<PtZ(0, 0, 200, 1000), PtZ(1000, 0, 300, 800), PtZ(2000, 0, 200, 600)>>),
      Stk(<<Pt(2000, 0), Pt(2000, 1000), Pt(1000, 1000)>>),
      Stk(<<Pt(4000, 4000), Pt(4500, 4000), Pt(4000, 4000)>>),
      Stk(<<Pt(5000, 5000), Pt(4000, 3000)>>),
      Stk(<<Pt(3000, 3000)>>),
      Stk(<<Pt(1000, 1000), Pt(1005, 1000), Pt(1010, 1000), Pt(1500, 1000),
            Pt(1505, 1000)>>),
      Stk(<<Pt(500, 500), Pt(500, 500)>>),
      Stk(<<Pt(2725, 0), Pt(2000, 0)>>),
      Stk(<<Pt(2750, 0), Pt(2000, 0)>>),
      Stk(<<Pt(2775, 0), Pt(3000, 0)>>) }

\* Longest data.strokes tried.
MaxPlanStrokes == 3

\* No style, the three presets, and a preset with inertia and tremor turned
\* off by the sliders.
MpStyles ==
    { [present |-> FALSE],
      [present |-> TRUE, base_ms_per_px |-> 90, pressure_scale |-> 10,
       inertia_factor |-> 13, micro_tremor_amp_px |-> 20, micro_tremor_freq_hz |-> 5],
      [present |-> TRUE, base_ms_per_px |-> 160, pressure_scale |-> 10,
       inertia_factor |-> 7, micro_tremor_amp_px |-> 20, micro_tremor_freq_hz |-> 5],
      [present |-> TRUE, base_ms_per_px |-> 75, pressure_scale |-> 12,
       inertia_factor |-> 16, micro_tremor_amp_px |-> 20, micro_tremor_freq_hz |-> 5],
      [present |-> TRUE, base_ms_per_px |-> 90, pressure_scale |-> 10,
       inertia_factor |-> 0, micro_tremor_amp_px |-> 0, micro_tremor_freq_hz |-> 5] }

\* Canvas sizes, as <<width, height>> in pixels.
MpCanvases == { <<400, 200>>, <<1000, 1000>> }

\* `data`: null, or an analysis with its list of strokes.
MpInputs ==
    { [isNull |-> TRUE] }
    \cup { [isNull |-> FALSE, strokes |-> l] :
             l \in UNION {[1..k -> MpPool] : k \in 0..MaxPlanStrokes} }

MpInit ==
    /\ mpPc = "call"
    /\ mpData \in MpInputs
    /\ \E c \in MpCanvases : mpCanvasWidth = c[1] /\ mpCanvasHeight = c[2]
    /\ mpStyle \in MpStyles
    /\ mpIndex = 0 /\ mpPaths = <<>> /\ mpCurrentTime = 0
    /\ mpPrevEndPos = <<>> /\ mpResult = <<>>
    /\ DsIdle /\ OsIdle /\ TrIdle /\ PpIdle /\ AeIdle /\ RcIdle /\ DzIdle

\* `if (!data || !data.strokes) return []`
PlanNoData ==
    /\ mpPc = "call"
    /\ mpData.isNull
    /\ mpPc' = "returned"
    /\ mpResult' = <<>>
    /\ UNCHANGED <<mpData, mpCanvasWidth, mpCanvasHeight, mpStyle, mpIndex,
                   mpPaths, mpCurrentTime, mpPrevEndPos>>
    /\ UNCHANGED <<dsVars, osVars, trVars, ppVars, aeVars, rcVars, dzVars>>

\* The locals are initialised and forEach is entered.
PlanEnter ==
    /\ mpPc = "call"
    /\ ~mpData.isNull
    /\ mpPc' = "forEach"
    /\ mpIndex' = 0 /\ mpPaths' = <<>> /\ mpCurrentTime' = 0
    /\ mpPrevEndPos' = <<>>
    /\ UNCHANGED <<mpData, mpCanvasWidth, mpCanvasHeight, mpStyle, mpResult>>
    /\ UNCHANGED <<dsVars, osVars, trVars, ppVars, aeVars, rcVars, dzVars>>

\* A forEach call on a stroke of fewer than two points: `return`.
PlanSkipStroke ==
    /\ mpPc = "forEach"
    /\ mpIndex < Len(mpData.strokes)
    /\ Len(mpData.strokes[mpIndex + 1].points) < 2
    /\ mpIndex' = mpIndex + 1
    /\ UNCHANGED <<mpPc, mpData, mpCanvasWidth, mpCanvasHeight, mpStyle,
                   mpPaths, mpCurrentTime, mpPrevEndPos, mpResult>>
    /\ UNCHANGED <<dsVars, osVars, trVars, ppVars, aeVars, rcVars, dzVars>>

\* A forEach call on a stroke of two points or more: map, filter, pen lift,
\* traversal, paths.push, prevEndPos.
PlanStroke ==
    /\ mpPc = "forEach"
    /\ mpIndex < Len(mpData.strokes)
    /\ Len(mpData.strokes[mpIndex + 1].points) >= 2
    /\ \E processedPoints \in
            {filterRedundantPoints(mappedPoints(mpData.strokes[mpIndex + 1].points,
                                                mpCanvasWidth, mpCanvasHeight))} :
         \E startTime \in {Plus(mpCurrentTime,
                                 PenLift(processedPoints[1], mpPrevEndPos))} :
           \E t \in {Traverse(processedPoints, 1, startTime, <<>>, mpStyle,
                              mpCanvasWidth)} :
              /\ mpPaths' = Append(mpPaths, StrokePath(mpIndex, t, startTime))
              /\ mpCurrentTime' = t.time
              /\ mpPrevEndPos' = <<processedPoints[Len(processedPoints)]>>
    /\ mpIndex' = mpIndex + 1
    /\ UNCHANGED <<mpPc, mpData, mpCanvasWidth, mpCanvasHeight, mpStyle, mpResult>>
    /\ UNCHANGED <<dsVars, osVars, trVars, ppVars, aeVars, rcVars, dzVars>>

\* `return paths`
PlanReturn ==
    /\ mpPc = "forEach"
    /\ mpIndex = Len(mpData.strokes)
    /\ mpPc' = "returned"
    /\ mpResult' = mpPaths
    /\ UNCHANGED <<mpData, mpCanvasWidth, mpCanvasHeight, mpStyle, mpIndex,
                   mpPaths, mpCurrentTime, mpPrevEndPos>>
    /\ UNCHANGED <<dsVars, osVars, trVars, ppVars, aeVars, rcVars, dzVars>>

MpNext == PlanNoData \/ PlanEnter \/ PlanSkipStroke \/ PlanStroke \/ PlanReturn

SpecPlanner == MpInit /\ [][MpNext]_vars

\* generateMotionPlan as a function of its arguments: the forEach loop from
\* the stroke of index `index` on.
RECURSIVE PlanFrom(_, _, _, _, _, _, _, _)
PlanFrom(strokes, index, currentTime, prevEndPos, paths, canvasWidth, canvasHeight, style) ==
    IF index >= Len(strokes) THEN paths
    ELSE IF Len(strokes[index + 1].points) < 2
    THEN PlanFrom(strokes, index + 1, currentTime, prevEndPos, paths,
                  canvasWidth, canvasHeight, style)
    ELSE LET processedPoints ==
                 filterRedundantPoints(mappedPoints(strokes[index + 1].points,
                                                    canvasWidth, canvasHeight))
             startTime == Plus(currentTime, PenLift(processedPoints[1], prevEndPos))
             t == Traverse(processedPoints, 1, startTime, <<>>, style, canvasWidth)
         IN  PlanFrom(strokes, index + 1, t.time,
                      <<processedPoints[Len(processedPoints)]>>,
                      Append(paths, StrokePath(index, t, startTime)),
                      canvasWidth, canvasHeight, style)

generateMotionPlan(data, canvasWidth, canvasHeight, style) ==
    IF data.isNull THEN <<>>
    ELSE PlanFrom(data.strokes, 0, 0, <<>>, <<>>, canvasWidth, canvasHeight, style)

(***************************************************************************)
(* SpecPlannerStyles: generateMotionPlan called with style objects that    *)
(* lack some of their fields                                               *)
(***************************************************************************)
StyleFields ==
    {"base_ms_per_px", "pressure_scale", "inertia_factor",
     "micro_tremor_amp_px", "micro_tremor_freq_hz"}

\* A preset with all its fields.
FullStyle ==
    [present |-> TRUE, base_ms_per_px |-> 90, pressure_scale |-> 12,
     inertia_factor |-> 13, micro_tremor_amp_px |-> 20, micro_tremor_freq_hz |-> 5]

\* No style, and the preset with any of its fields left out.
MpPartialStyles ==
    { [present |-> FALSE] }
    \cup { [f \in {"present"} \cup kept |-> FullStyle[f]] : kept \in SUBSET StyleFields }

\* Longest data.strokes tried with these styles.
MaxStyledStrokes == 2

MpStylesInit ==
    /\ mpPc = "call"
    /\ mpData \in { d \in MpInputs : d.isNull \/ Len(d.strokes) <= MaxStyledStrokes }
    /\ \E c \in MpCanvases : mpCanvasWidth = c[1] /\ mpCanvasHeight = c[2]
    /\ mpStyle \in MpPartialStyles
    /\ mpIndex = 0 /\ mpPaths = <<>> /\ mpCurrentTime = 0
    /\ mpPrevEndPos = <<>> /\ mpResult = <<>>
    /\ DsIdle /\ OsIdle /\ TrIdle /\ PpIdle /\ AeIdle /\ RcIdle /\ DzIdle

SpecPlannerStyles == MpStylesInit /\ [][MpNext]_vars

(***************************************************************************)
(* Claims about generateMotionPlan                                         *)
(***************************************************************************)
\* Every path built so far, and every path returned.
MpAllPaths == {mpPaths[i] : i \in 1..Len(mpPaths)} \cup {mpResult[i] : i \in 1..Len(mpResult)}

\* C2: in every StrokePath the times of the points never decrease, startTime
\* is the time of the first point and endTime the time of the last point.
C2_MonotonicTiming ==
    \A path \in MpAllPaths :
        /\ \A i \in 1..(Len(path.points) - 1) :
              path.points[i].time <= path.points[i + 1].time
        /\ path.startTime = path.points[1].time
        /\ path.endTime = path.points[Len(path.points)].time

\* A plan was returned with a path of three points or more that starts after
\* time 0 and whose clock advanced.
C2_Witness ==
    /\ mpPc = "returned"
    /\ \E i \in 1..Len(mpResult) :
          /\ Len(mpResult[i].points) >= 3
          /\ mpResult[i].startTime > 0
          /\ mpResult[i].endTime > mpResult[i].startTime

\* C3: every path ends no earlier than it starts, and of two consecutive
\* paths the earlier ends no later than the later starts.
C3_ClockNeverRunsBack ==
    /\ \A i \in 1..Len(mpResult) : mpResult[i].endTime >= mpResult[i].startTime
    /\ \A i \in 1..(Len(mpResult) - 1) :
          mpResult[i].endTime <= mpResult[i + 1].startTime

\* A plan of three paths was returned, one starting after a pen lift and one
\* starting right when the path before it ended.
C3_Witness ==
    /\ mpPc = "returned"
    /\ Len(mpResult) >= 3
    /\ \E i \in 1..(Len(mpResult) - 1) : mpResult[i].endTime < mpResult[i + 1].startTime
    /\ \E i \in 1..(Len(mpResult) - 1) : mpResult[i].endTime = mpResult[i + 1].startTime

\* The indices (from 0) of the first n strokes that have 2 points or more.
EmittedIndices(strokes, n) ==
    SelectSeq([k \in 1..n |-> k - 1], LAMBDA k : Len(strokes[k + 1].points) >= 2)

\* The ids of a list of paths.
PathIds(paths) == [i \in 1..Len(paths) |-> paths[i].id]

\* C17: the plan holds exactly one path for every input stroke of 2 points
\* or more, in input order and with the stroke's index as its id, none for
\* a stroke of fewer points, and every path has at least one point.
C17_OnePathPerStroke ==
    /\ mpPc = "forEach" => PathIds(mpPaths) = EmittedIndices(mpData.strokes, mpIndex)
    /\ (mpPc = "returned" /\ ~mpData.isNull) =>
           PathIds(mpResult) = EmittedIndices(mpData.strokes, Len(mpData.strokes))
    /\ (mpPc = "returned" /\ mpData.isNull) => mpResult = <<>>
    /\ \A path \in MpAllPaths : Len(path.points) >= 1

\* A plan was returned for three strokes of which the second has one point:
\* it holds the paths 0 and 2, and path 2, made of a stroke of two equal
\* points, has a single point.
C17_Witness ==
    /\ mpPc = "returned" /\ ~mpData.isNull
    /\ Len(mpData.strokes) = 3
    /\ Len(mpData.strokes[2].points) = 1
    /\ PathIds(mpResult) = <<0, 2>>
    /\ Len(mpResult[1].points) = 3
    /\ Len(mpResult[2].points) = 1

\* The style with the default put in for every field it lacks.
DefaultOf(field) == IF field = "base_ms_per_px" THEN 120
                    ELSE IF field = "pressure_scale" THEN 10
                    ELSE 0
WithDefaults(style) ==
    [f \in {"present"} \cup StyleFields |->
        IF f = "present" THEN TRUE
        ELSE IF style.present /\ f \in DOMAIN style THEN style[f]
        ELSE DefaultOf(f)]

\* C15, as stated: with a style that lacks any of its fields, or with no
\* style, the plan returned is the plan that the same call returns when the
\* defaults (1.2, 1, 0, 0, 0) are passed in the place of the missing fields.
C15_MissingFieldsDefault ==
    mpPc = "returned" =>
        mpResult = generateMotionPlan(mpData, mpCanvasWidth, mpCanvasHeight,
                                      WithDefaults(mpStyle))

\* What the code does keep of C15: the call returns, and the plan is the one
\* of the defaults whenever base_ms_per_px is not the missing field.
C15_DefaultsButBaseSpeed ==
    (mpPc = "returned" /\ (~mpStyle.present \/ "base_ms_per_px" \in DOMAIN mpStyle)) =>
        mpResult = generateMotionPlan(mpData, mpCanvasWidth, mpCanvasHeight,
                                      WithDefaults(mpStyle))

\* A plan was returned for a style that lacks base_ms_per_px only, and the
\* time of its second point is NaN.
C15_NaNTimes ==
    /\ mpPc = "returned"
    /\ mpStyle.present /\ DOMAIN mpStyle = {"present"} \cup (StyleFields \ {"base_ms_per_px"})
    /\ Len(mpResult) = 1 /\ Len(mpResult[1].points) = 2
    /\ mpResult[1].startTime = 0
    /\ mpResult[1].points[1].time = 0
    /\ mpResult[1].points[2].time = NaN
    /\ mpResult[1].endTime = NaN

\* processedPoints of the input stroke that path `path` was made of.
ProcessedOf(path) ==
    filterRedundantPoints(mappedPoints(mpData.strokes[path.id + 1].points,
                                       mpCanvasWidth, mpCanvasHeight))

\* The squared distance, in tenths of a pixel, from the last processed point
\* of the stroke of path `before` to the first one of the stroke of `after`.
GapSq(before, after) ==
    distSq(ProcessedOf(before)[Len(ProcessedOf(before))], ProcessedOf(after)[1])

\* C11: between two consecutive emitted strokes the clock advances by
\* min(0.5 * d, 250) + 50 ms exactly when the distance d from the previous
\* stroke's last point to this stroke's first point is more than 30 px, and
\* by nothing otherwise; the first emitted stroke starts at time 0.
C11_PenLift ==
    /\ Len(mpPaths) > 0 => mpPaths[1].startTime = 0
    /\ \A i \in 1..(Len(mpPaths) - 1) :
          mpPaths[i + 1].startTime - mpPaths[i].endTime =
             IF GapSq(mpPaths[i], mpPaths[i + 1]) > 300 * 300
             THEN Min(SqrtMilli(GapSq(mpPaths[i], mpPaths[i + 1])) \div 200, 25000) + 5000
             ELSE 0

\* A plan was returned in which a stroke starts 29 px from the end of the
\* one before it, with no lift, and the next starts 31 px from that one's
\* end, 65.5 ms later.
C11_Witness ==
    /\ mpPc = "returned" /\ Len(mpResult) = 3
    /\ GapSq(mpResult[1], mpResult[2]) = 290 * 290
    /\ mpResult[2].startTime = mpResult[1].endTime
    /\ GapSq(mpResult[2], mpResult[3]) = 310 * 310
    /\ mpResult[3].startTime = mpResult[2].endTime + 6550

(***************************************************************************)
(* analyzeSignatureLocal                                                   *)
(*                                                                         *)
(* The image is the RGBA data that getImageData returns, one pixel record  *)
(* per cell.  currentPos, a centroid, is kept as the sums and the count it *)
(* is the quotient of.  The z of a point is kept multiplied by pWidth      *)
(* (thicknessNorm * pWidth = radius * 2 * OUTPUT_SCALE) and its a in       *)
(* thousandths, so that both stay whole numbers through smoothPoints.      *)
(***************************************************************************)
MAX_PROCESS_WIDTH == 1200
OUTPUT_SCALE == 10000
PEN_RADIUS == 3
SEARCH_RADIUS == 5
\* The bound of both safety counters of the walker.
SAFETY_LIMIT == 10000
\* The minSize handed to despeckleBitmask.
SPECKLE_SIZE == 20
MERGE_THRESHOLD_SQ == 90000

\* `Math.round(a / b)` for a >= 0 and b > 0.
RoundDiv(a, b) == (2 * a + b) \div (2 * b)

\* pWidth and pHeight: the image size scaled down to MAX_PROCESS_WIDTH.
ProcessWidth(imgWidth) ==
    IF imgWidth <= MAX_PROCESS_WIDTH THEN imgWidth ELSE MAX_PROCESS_WIDTH
ProcessHeight(imgWidth, imgHeight) ==
    IF imgWidth <= MAX_PROCESS_WIDTH THEN imgHeight
    ELSE (imgHeight * MAX_PROCESS_WIDTH) \div imgWidth

\* `lum`, times 1000.
Lum(px) == 299 * px.r + 587 * px.g + 114 * px.b

\* `lum < 200 && a > 50`
IsInk(px) == Lum(px) < 200000 /\ px.a > 50

\* The mask `visited` before despeckling.
BuildMask(data, n) == [i \in 0..(n - 1) |-> IF IsInk(data[i]) THEN 1 ELSE 0]

\* A scan that stops at the last cell of unconsumed ink instead of the first.
FirstInk_Last(visited, globalSearchIdx, n) ==
    IF \E i \in globalSearchIdx..(n - 1) : visited[i] = 1
    THEN CHOOSE i \in globalSearchIdx..(n - 1) :
             /\ visited[i] = 1
             /\ \A j \in (i + 1)..(n - 1) : visited[j] # 1
    ELSE -1

\* The seed scan: the first index from globalSearchIdx on that holds
\* unconsumed ink, or -1.
FirstInk(visited, globalSearchIdx, n) ==
    IF \E i \in globalSearchIdx..(n - 1) : visited[i] = 1
    THEN CHOOSE i \in globalSearchIdx..(n - 1) :
             /\ visited[i] = 1
             /\ \A j \in globalSearchIdx..(i - 1) : visited[j] # 1
    ELSE -1

\* `getXY`, as a centroid of one cell.
getXY(idx, pWidth) == [sumX |-> idx % pWidth, sumY |-> idx \div pWidth, count |-> 1]

\* `parseFloat(opacity.toFixed(2))`, in thousandths, for the pixel sampled.
Opacity(px) ==
    10 * ((2 * px.a * Max(25500, 255000 - Lum(px)) + 650250) \div 1300500)

SampleOpacity(data, sampleIdx, n) ==
    IF sampleIdx >= 0 /\ sampleIdx < n THEN Opacity(data[sampleIdx]) ELSE 1000

\* One of the four rays at distance r leaves the image or reaches a cell
\* that is background.
HitBg(visited, cx, cy, r, pWidth, pHeight) ==
    \E c \in { <<cx + r, cy>>, <<cx - r, cy>>, <<cx, cy + r>>, <<cx, cy - r>> } :
        \/ c[1] < 0 \/ c[1] >= pWidth \/ c[2] < 0 \/ c[2] >= pHeight
        \/ visited[c[2] * pWidth + c[1]] = 0

\* `radius`: the first r in 1..19 at which a ray hits background, else 1.
Radius(visited, cx, cy, pWidth, pHeight) ==
    IF \E r \in 1..19 : HitBg(visited, cx, cy, r, pWidth, pHeight)
    THEN CHOOSE r \in 1..19 :
             /\ HitBg(visited, cx, cy, r, pWidth, pHeight)
             /\ \A q \in 1..(r - 1) : ~HitBg(visited, cx, cy, q, pWidth, pHeight)
    ELSE 1

NormCoord_Unscaled(sum, count, size) == RoundDiv(sum * OUTPUT_SCALE, count)

\* `Math.round((currentPos.x / pWidth) * OUTPUT_SCALE)`
NormCoord(sum, count, size) == RoundDiv(sum * OUTPUT_SCALE, count * size)

\* The point pushed for currentPos.
WalkerPoint(pos, cx, cy, visited, data, pWidth, pHeight) ==
    [x |-> NormCoord(pos.sumX, pos.count, pWidth),
     y |-> NormCoord(pos.sumY, pos.count, pHeight),
     z |-> Radius(visited, cx, cy, pWidth, pHeight) * 2 * OUTPUT_SCALE,
     a |-> SampleOpacity(data, cy * pWidth + cx, pWidth * pHeight)]

\* A pen that marks every cell within PEN_RADIUS of (cx, cy), ink or not.
Consume_AnyCell(visited, cx, cy, pWidth) ==
    [i \in DOMAIN visited |->
        IF ((i % pWidth) - cx) * ((i % pWidth) - cx)
             + ((i \div pWidth) - cy) * ((i \div pWidth) - cy)
             <= PEN_RADIUS * PEN_RADIUS
        THEN 2 ELSE visited[i]]

\* Consume ink: every unconsumed cell within PEN_RADIUS of (cx, cy) is
\* marked 2.
Consume(visited, cx, cy, pWidth) ==
    [i \in DOMAIN visited |->
        IF /\ visited[i] = 1
           /\ ((i % pWidth) - cx) * ((i % pWidth) - cx)
                + ((i \div pWidth) - cy) * ((i \div pWidth) - cy)
                <= PEN_RADIUS * PEN_RADIUS
        THEN 2 ELSE visited[i]]

\* The unconsumed cells of column x within rows minY..maxY-1.
ColumnInk(visited, x, minY, maxY, pWidth) ==
    {y \in minY..(maxY - 1) : visited[y * pWidth + x] = 1}
RowInk(visited, y, minX, maxX, pWidth) ==
    {x \in minX..(maxX - 1) : visited[y * pWidth + x] = 1}

\* sumX, sumY and count of the unconsumed ink in the search window.
Centroid(visited, cx, cy, pWidth, pHeight) ==
    [sumX |-> SumRange([x \in 0..pWidth |->
                          x * Cardinality(ColumnInk(visited, x,
                                  Max(0, cy - SEARCH_RADIUS),
                                  Min(pHeight, cy + SEARCH_RADIUS), pWidth))],
                       Max(0, cx - SEARCH_RADIUS),
                       Min(pWidth, cx + SEARCH_RADIUS) - 1),
     sumY |-> SumRange([y \in 0..pHeight |->
                          y * Cardinality(RowInk(visited, y,
                                  Max(0, cx - SEARCH_RADIUS),
                                  Min(pWidth, cx + SEARCH_RADIUS), pWidth))],
                       Max(0, cy - SEARCH_RADIUS),
                       Min(pHeight, cy + SEARCH_RADIUS) - 1),
     count |-> Cardinality({i \in DOMAIN visited :
                   /\ visited[i] = 1
                   /\ (i % pWidth) >= cx - SEARCH_RADIUS
                   /\ (i % pWidth) < cx + SEARCH_RADIUS
                   /\ (i \div pWidth) >= cy - SEARCH_RADIUS
                   /\ (i \div pWidth) < cy + SEARCH_RADIUS})]

\* strokePoints is kept as runs of equal points, [point, count] standing for
\* count consecutive copies of point: `strokePoints.push(p)`,
\* `strokePoints.length`, and the list itself.
Push(runs, p) ==
    IF Len(runs) > 0 /\ runs[Len(runs)].point = p
    THEN [runs EXCEPT ![Len(runs)].count = @ + 1]
    ELSE Append(runs, [point |-> p, count |-> 1])

Length(runs) == SumRange([i \in 1..Len(runs) |-> runs[i].count], 1, Len(runs))

RECURSIVE PointsFrom(_, _)
PointsFrom(runs, i) ==
    IF i > Len(runs) THEN <<>>
    ELSE [k \in 1..runs[i].count |-> runs[i].point] \o PointsFrom(runs, i + 1)

Points(runs) == PointsFrom(runs, 1)

InnerLoopRuns_Uncapped(tracing, strokeSafety) == tracing

\* `while (tracing && strokeSafety < 10000)`
InnerLoopRuns(tracing, strokeSafety) == tracing /\ strokeSafety < SAFETY_LIMIT

\* `while (active && safetyCounter < 10000)`
OuterLoopRuns(active, safetyCounter) == active /\ safetyCounter < SAFETY_LIMIT

\* A merge loop that measures from the first point of the stroke being grown.
RECURSIVE MergeLoop_FromFirstPoint(_, _, _, _)
MergeLoop_FromFirstPoint(orderedStrokes, i, currentStroke, mergedStrokes) ==
    IF i > Len(orderedStrokes) THEN Append(mergedStrokes, currentStroke)
    ELSE IF distSq(currentStroke.points[1],
                   orderedStrokes[i].points[1]) < MERGE_THRESHOLD_SQ
    THEN MergeLoop_FromFirstPoint(orderedStrokes, i + 1,
                   [currentStroke EXCEPT !.points = @ \o orderedStrokes[i].points],
                   mergedStrokes)
    ELSE MergeLoop_FromFirstPoint(orderedStrokes, i + 1, orderedStrokes[i],
                   Append(mergedStrokes, currentStroke))

\* The merge loop from stroke i on; currentStroke is the stroke being grown.
RECURSIVE MergeLoop(_, _, _, _)
MergeLoop(orderedStrokes, i, currentStroke, mergedStrokes) ==
    IF i > Len(orderedStrokes) THEN Append(mergedStrokes, currentStroke)
    ELSE IF distSq(currentStroke.points[Len(currentStroke.points)],
                   orderedStrokes[i].points[1]) < MERGE_THRESHOLD_SQ
    THEN MergeLoop(orderedStrokes, i + 1,
                   [currentStroke EXCEPT !.points = @ \o orderedStrokes[i].points],
                   mergedStrokes)
    ELSE MergeLoop(orderedStrokes, i + 1, orderedStrokes[i],
                   Append(mergedStrokes, currentStroke))

MergeStrokes(orderedStrokes) ==
    IF Len(orderedStrokes) > 0
    THEN MergeLoop(orderedStrokes, 2, orderedStrokes[1], <<>>)
    ELSE <<>>

\* `Math.round(0.1 * prev + 0.8 * curr + 0.1 * next)`
SmoothCoord(prev, curr, next) == (prev + 8 * curr + next + 5) \div 10

\* `smoothPoints`; the points of the walker all carry z and a.
smoothPoints(points) ==
    IF Len(points) < 3 THEN points
    ELSE [i \in 1..Len(points) |->
            IF i = 1 \/ i = Len(points) THEN points[i]
            ELSE [x |-> SmoothCoord(points[i - 1].x, points[i].x, points[i + 1].x),
                  y |-> SmoothCoord(points[i - 1].y, points[i].y, points[i + 1].y),
                  z |-> (points[i - 1].z + 8 * points[i].z + points[i + 1].z) \div 10,
                  a |-> (points[i - 1].a + 8 * points[i].a + points[i + 1].a) \div 10]]

\* The elements of s at the indices that satisfy Keep, in order.
PickAll(s, idx) == [k \in 1..Len(idx) |-> s[idx[k]]]
SelectIdx(s, Keep(_)) == PickAll(s, SelectSeq([i \in 1..Len(s) |-> i], Keep))

\* `deduped`: a point is kept when it is the first or more than 10 units
\* from the point before it in the list.
Dedupe(points) ==
    SelectIdx(points, LAMBDA i : i = 1 \/ distSq(points[i], points[i - 1]) > 100)

\* `hit`: a cell of the 5 x 5 block around the point's cell is ink (consumed
\* or not); the block is tested by index only.
OnInk(p, visited, pWidth, pHeight) ==
    \E ry \in -2..2 : \E rx \in -2..2 :
        /\ (((p.y * pHeight) \div OUTPUT_SCALE) + ry) * pWidth
             + ((p.x * pWidth) \div OUTPUT_SCALE) + rx >= 0
        /\ (((p.y * pHeight) \div OUTPUT_SCALE) + ry) * pWidth
             + ((p.x * pWidth) \div OUTPUT_SCALE) + rx < pWidth * pHeight
        /\ visited[(((p.y * pHeight) \div OUTPUT_SCALE) + ry) * pWidth
                     + ((p.x * pWidth) \div OUTPUT_SCALE) + rx] > 0

\* `onInkPoints`: the first and last point, and the on-ink points between.
OnInkPoints(deduped, visited, pWidth, pHeight) ==
    SelectIdx(deduped, LAMBDA i : \/ i = 1 \/ i = Len(deduped)
                                  \/ OnInk(deduped[i], visited, pWidth, pHeight))

\* A short sharp spike at curr.
IsJitter(prev, curr, next) ==
    /\ distSq(prev, curr) < 2500 /\ distSq(curr, next) < 2500
    /\ distSq(prev, curr) * distSq(curr, next) > 0
    /\ (curr.x - prev.x) * (next.x - curr.x) + (curr.y - prev.y) * (next.y - curr.y) < 0

\* One pass of `filterJitter`.
JitterPass(input) ==
    SelectIdx(input, LAMBDA i : \/ i = 1 \/ i = Len(input)
                                \/ ~IsJitter(input[i - 1], input[i], input[i + 1]))

\* A filter of one pass.
SecondPass_Skipped(clean) == clean

\* The second pass, unless the first has left fewer than 3 points.
SecondPass(clean) == IF Len(clean) < 3 THEN clean ELSE JitterPass(clean)

filterJitter(points) ==
    IF Len(points) < 3 THEN points ELSE SecondPass(JitterPass(points))

\* Numbers beyond 32 bits, as hi * 10^8 + lo with 0 <= lo < 10^8.
Wide(hi, loSum) == [hi |-> hi + loSum \div 100000000, lo |-> loSum % 100000000]
WideSquare(c) ==
    Wide((c \div 10000) * (c \div 10000) + (2 * (c \div 10000) * (c % 10000)) \div 10000,
         ((2 * (c \div 10000) * (c % 10000)) % 10000) * 10000 + (c % 10000) * (c % 10000))
WideTimes(m, b) ==
    Wide((m * (b \div 10000)) \div 10000,
         ((m * (b \div 10000)) % 10000) * 10000 + m * (b % 10000))
WideGreater(a, b) == a.hi > b.hi \/ (a.hi = b.hi /\ a.lo > b.lo)

\* prev.x * (curr.y - next.y) + curr.x * (next.y - prev.y) + next.x * (prev.y - curr.y),
\* which is 2 * area up to its sign.
Cross(prev, curr, next) ==
    prev.x * (curr.y - next.y) + curr.x * (next.y - prev.y) + next.x * (prev.y - curr.y)

\* `deviationSq > 30`, deviationSq being (2 * area)^2 / baseSq.
Deviates(prev, curr, next) ==
    WideGreater(WideSquare(Abs(Cross(prev, curr, next))), WideTimes(30, distSq(next, prev)))

\* The simplification loop from point i on.
RECURSIVE SimplifyLoop(_, _, _)
SimplifyLoop(jitterFreePoints, i, finalPoints) ==
    IF i > Len(jitterFreePoints) - 1
    THEN Append(finalPoints, jitterFreePoints[Len(jitterFreePoints)])
    ELSE SimplifyLoop(jitterFreePoints, i + 1,
            IF /\ distSq(jitterFreePoints[i + 1], finalPoints[Len(finalPoints)]) >= 1
               /\ Deviates(finalPoints[Len(finalPoints)], jitterFreePoints[i],
                           jitterFreePoints[i + 1])
            THEN Append(finalPoints, jitterFreePoints[i])
            ELSE finalPoints)

\* A simplification that leaves the last point out.
Simplify_LastDropped(jitterFreePoints) ==
    SubSeq(SimplifyLoop(jitterFreePoints, 2, <<jitterFreePoints[1]>>), 1,
           Len(SimplifyLoop(jitterFreePoints, 2, <<jitterFreePoints[1]>>)) - 1)

\* A simplification that keeps the first point only.
Simplify_FirstOnly(jitterFreePoints) == <<jitterFreePoints[1]>>

\* `finalPoints`: the first point, the points that deviate, the last point.
Simplify(jitterFreePoints) == SimplifyLoop(jitterFreePoints, 2, <<jitterFreePoints[1]>>)

\* `steps`: Math.ceil(dist / Math.max(1, stepSize * outputScale)), where
\* stepSize * outputScale is 2 * outputScale^2 / width, which is above 1.
CoverageSteps(p1, p2, width) ==
    IF distSq(p1, p2) = 0 THEN 0
    ELSE ((ISqrt(distSq(p1, p2)) * width) \div (2 * OUTPUT_SCALE * OUTPUT_SCALE)) + 1

\* The sample points of segment i: p1 + (p2 - p1) * j / steps, j in 0..steps.
CoverageSamples(points, i, width) ==
    IF CoverageSteps(points[i], points[i + 1], width) = 0
    THEN << [x |-> points[i].x, y |-> points[i].y] >>
    ELSE [j \in 1..(CoverageSteps(points[i], points[i + 1], width) + 1) |->
            [x |-> points[i].x + ((points[i + 1].x - points[i].x) * (j - 1))
                     \div CoverageSteps(points[i], points[i + 1], width),
             y |-> points[i].y + ((points[i + 1].y - points[i].y) * (j - 1))
                     \div CoverageSteps(points[i], points[i + 1], width)]]

\* The sample falls into the mask (it is a check).
SampleChecked(s, width, height) ==
    /\ (s.x * width) \div OUTPUT_SCALE >= 0 /\ (s.x * width) \div OUTPUT_SCALE < width
    /\ (s.y * height) \div OUTPUT_SCALE >= 0 /\ (s.y * height) \div OUTPUT_SCALE < height

\* The 3 x 3 block around the sample's cell holds ink (it is a hit).
SampleHit(s, bitmask, width, height) ==
    \E ry \in -1..1 : \E rx \in -1..1 :
        /\ (((s.y * height) \div OUTPUT_SCALE) + ry) * width
             + ((s.x * width) \div OUTPUT_SCALE) + rx >= 0
        /\ (((s.y * height) \div OUTPUT_SCALE) + ry) * width
             + ((s.x * width) \div OUTPUT_SCALE) + rx < width * height
        /\ bitmask[(((s.y * height) \div OUTPUT_SCALE) + ry) * width
                     + ((s.x * width) \div OUTPUT_SCALE) + rx] > 0

\* checks and hits of segment i.
SegmentChecks(points, i, width, height) ==
    Len(SelectSeq(CoverageSamples(points, i, width),
                  LAMBDA s : SampleChecked(s, width, height)))
SegmentHits(points, i, bitmask, width, height) ==
    Len(SelectSeq(CoverageSamples(points, i, width),
                  LAMBDA s : SampleChecked(s, width, height)
                             /\ SampleHit(s, bitmask, width, height)))

\* `(hits / checks) >= 0.55`, false when nothing was checked.
CoverageRatioOk(hits, checks) == checks # 0 /\ 100 * hits >= 55 * checks

validateStrokeCoverage(stroke, bitmask, width, height) ==
    IF Len(stroke.points) < 2 THEN TRUE
    ELSE CoverageRatioOk(
            SumRange([i \in 1..(Len(stroke.points) - 1) |->
                         SegmentHits(stroke.points, i, bitmask, width, height)],
                     1, Len(stroke.points) - 1),
            SumRange([i \in 1..(Len(stroke.points) - 1) |->
                         SegmentChecks(stroke.points, i, width, height)],
                     1, Len(stroke.points) - 1))

\* The body of the post-processing loop for one smoothed stroke: the list of
\* strokes it adds to finalStrokes (none or one).
AfterJitter(stroke, jitterFreePoints, visited, pWidth, pHeight) ==
    IF Len(jitterFreePoints) < 3 THEN <<>>
    ELSE IF validateStrokeCoverage([stroke EXCEPT !.points = Simplify(jitterFreePoints)],
                                   visited, pWidth, pHeight)
    THEN << [stroke EXCEPT !.points = Simplify(jitterFreePoints)] >>
    ELSE <<>>

AfterDedupe(stroke, deduped, visited, pWidth, pHeight) ==
    IF Len(deduped) < 3 THEN <<>>
    ELSE AfterJitter(stroke,
                     filterJitter(OnInkPoints(deduped, visited, pWidth, pHeight)),
                     visited, pWidth, pHeight)

PostProcessStroke(stroke, visited, pWidth, pHeight) ==
    AfterDedupe(stroke, Dedupe(stroke.points), visited, pWidth, pHeight)

\* `finalStrokes` after the loop over smoothedStrokes from stroke i on.
RECURSIVE PostProcessFrom(_, _, _, _, _)
PostProcessFrom(smoothedStrokes, i, visited, pWidth, pHeight) ==
    IF i > Len(smoothedStrokes) THEN <<>>
    ELSE PostProcessStroke(smoothedStrokes[i], visited, pWidth, pHeight)
           \o PostProcessFrom(smoothedStrokes, i + 1, visited, pWidth, pHeight)

Settle_RejectEmpty(finalStrokes) ==
    IF Len(finalStrokes) = 0 THEN "rejected" ELSE "resolved"

\* `resolve({ strokes: finalStrokes, ... })`
Settle(finalStrokes) == "resolved"

OnThrow_Swallowed == "pending"

\* `catch (e) { reject(e) }`
OnThrow == "rejected"

(***************************************************************************)
(* SpecTracer: analyzeSignatureLocal, one action per step of the pipeline  *)
(***************************************************************************)
White == [r |-> 255, g |-> 255, b |-> 255, a |-> 255]
Black == [r |-> 0, g |-> 0, b |-> 0, a |-> 255]
\* Grey ink (lum 150) and a black pixel that is nearly transparent (a 40).
Grey == [r |-> 150, g |-> 150, b |-> 150, a |-> 255]
Ghost == [r |-> 0, g |-> 0, b |-> 0, a |-> 40]

\* The sets of at most k elements of S.
SetsUpTo(S, k) == UNION { { {t[i] : i \in 1..j} : t \in [1..j -> S] } : j \in 0..k }

\* The image of the given size whose cells in `cells` hold pixel px and whose
\* other cells hold pixel rest.
Image(width, height, cells, px, rest) ==
    [width |-> width, height |-> height,
     data |-> [i \in 0..(width * height - 1) |-> IF i \in cells THEN px ELSE rest]]

\* Most holes punched into a solid bar, and most specks put on a blank page.
MaxHoles == 2
MaxSpecks == 1

\* Sizes of the bars and of the blank pages, as <<width, height>>.
TrBarSizes == { <<12, 2>> }
TrPageSizes == { <<5, 4>> }

\* The cells of the given rows and columns of an image of the given width.
Cells(width, rows, cols) == {width * r + c : r \in rows, c \in cols}

\* A narrow page, 7 wide and 28 high, with a bar of ink along its left edge
\* and one along its right edge, both with gaps, and a bridge between them.
TwoEdgeBars ==
    Cells(7, 0..15, 5..6) \cup Cells(7, 2..12, 0..1) \cup Cells(7, 12..15, 2..4)
    \cup Cells(7, 18..27, 0..1) \cup Cells(7, 18..20, 5..6) \cup Cells(7, 26..27, 3..6)

\* Four bars of 30 cells in a row of 240: the second and the third begin 291
\* units after the walker's last point on the bar before, the fourth 334.
FourBars == (0..29) \cup (35..64) \cup (70..99) \cup (106..135)

\* A cross on a page 39 wide and 42 high: a line one cell wide down column 19
\* and a band three cells thick across rows 20 to 22, both from edge to edge.
\* From the cell where they meet, every axis-aligned ray runs 19 cells on ink.
WideCross == Cells(39, 0..41, {19}) \cup Cells(39, 20..22, 0..38)

\* Solid bars of ink with holes, blank pages with specks, a solid block that
\* is wider than the pen on every side, a hollow square, a bar of grey ink
\* with a nearly transparent end, two bars apart from each other, a thin
\* line of ink at the right end of a wide image, the narrow page with a
\* bar along each edge, the four bars in a row, and the wide cross.
TrImages ==
    UNION { { Image(sz[1], sz[2], holes, White, Black) :
                holes \in SetsUpTo(0..(sz[1] * sz[2] - 1), MaxHoles) } : sz \in TrBarSizes }
    \cup UNION { { Image(sz[1], sz[2], specks, Black, White) :
                specks \in SetsUpTo(0..(sz[1] * sz[2] - 1), MaxSpecks) } : sz \in TrPageSizes }
    \cup { Image(6, 6, {}, White, Black),
           Image(7, 7, {8 + 7 * r + c : r \in 0..4, c \in 0..4}, White, Black),
           [Image(12, 2, {11, 23}, Ghost, Grey) EXCEPT !.data[0] = Black],
           Image(30, 2, (12..17) \cup (42..47), White, Black),
           Image(60, 1, 0..35, White, Black),
           Image(7, 28, TwoEdgeBars, Black, White),
           Image(240, 1, FourBars, Black, White),
           Image(39, 42, WideCross, Black, White) }

TrInit ==
    /\ trPc = "loading"
    /\ trImage \in TrImages
    /\ trPWidth = 0 /\ trPHeight = 0
    /\ trVisited = <<>>
    /\ trGlobalSearchIdx = 0 /\ trActive = FALSE /\ trSafetyCounter = 0
    /\ trStrokePoints = <<>> /\ trCurrentPos = getXY(0, 1)
    /\ trTracing = FALSE /\ trStrokeSafety = 0
    /\ trRawStrokes = <<>> /\ trOrderedStrokes = <<>> /\ trMergedStrokes = <<>>
    /\ trSmoothedStrokes = <<>> /\ trFinalStrokes = <<>>
    /\ trStages = <<>>
    /\ trOutcome = "pending" /\ trResult = <<>>
    /\ DsIdle /\ OsIdle /\ MpIdle /\ PpIdle /\ AeIdle /\ RcIdle /\ DzIdle

\* `img.onerror`: the image does not load.
ImageError ==
    /\ trPc = "loading"
    /\ trPc' = "done"
    /\ trOutcome' = "rejected"
    /\ UNCHANGED <<trImage, trPWidth, trPHeight, trVisited, trGlobalSearchIdx,
                   trActive, trSafetyCounter, trStrokePoints, trCurrentPos,
                   trTracing, trStrokeSafety, trRawStrokes, trOrderedStrokes,
                   trMergedStrokes, trSmoothedStrokes, trFinalStrokes, trStages,
                   trResult>>
    /\ UNCHANGED <<dsVars, osVars, mpVars, ppVars, aeVars, rcVars, dzVars>>

\* `img.onload` when getContext returns null or getImageData throws: the
\* exception is caught and the promise rejected.
OnLoadThrows ==
    /\ trPc = "loading"
    /\ trPc' = "done"
    /\ trPWidth' = ProcessWidth(trImage.width)
    /\ trPHeight' = ProcessHeight(trImage.width, trImage.height)
    /\ trOutcome' = OnThrow
    /\ UNCHANGED <<trImage, trVisited, trGlobalSearchIdx,
                   trActive, trSafetyCounter, trStrokePoints, trCurrentPos,
                   trTracing, trStrokeSafety, trRawStrokes, trOrderedStrokes,
                   trMergedStrokes, trSmoothedStrokes, trFinalStrokes, trStages,
                   trResult>>
    /\ UNCHANGED <<dsVars, osVars, mpVars, ppVars, aeVars, rcVars, dzVars>>

\* `img.onload` up to the walker: the canvas, the mask, despeckleBitmask and
\* the walker's locals.
OnLoadBuildMask ==
    /\ trPc = "loading"
    /\ trPc' = "seek"
    /\ trPWidth' = ProcessWidth(trImage.width)
    /\ trPHeight' = ProcessHeight(trImage.width, trImage.height)
    /\ trVisited' = despeckleBitmask(BuildMask(trImage.data, trPWidth' * trPHeight'),
                                     trPWidth', trPHeight', SPECKLE_SIZE)
    /\ trRawStrokes' = <<>>
    /\ trGlobalSearchIdx' = 0 /\ trActive' = TRUE /\ trSafetyCounter' = 0
    /\ trStages' = Append(trStages, "mask")
    /\ UNCHANGED <<trImage, trStrokePoints, trCurrentPos, trTracing,
                   trStrokeSafety, trOrderedStrokes, trMergedStrokes,
                   trSmoothedStrokes, trFinalStrokes, trOutcome, trResult>>
    /\ UNCHANGED <<dsVars, osVars, mpVars, ppVars, aeVars, rcVars, dzVars>>

\* An iteration of the outer loop that finds a seed: the stroke's locals are
\* initialised and the inner loop is entered.
SeekStroke ==
    /\ trPc = "seek"
    /\ OuterLoopRuns(trActive, trSafetyCounter)
    /\ FirstInk(trVisited, trGlobalSearchIdx, trPWidth * trPHeight) # -1
    /\ trSafetyCounter' = trSafetyCounter + 1
    /\ trGlobalSearchIdx' = FirstInk(trVisited, trGlobalSearchIdx, trPWidth * trPHeight)
    /\ trStrokePoints' = <<>>
    /\ trCurrentPos' = getXY(trGlobalSearchIdx', trPWidth)
    /\ trTracing' = TRUE
    /\ trStrokeSafety' = 0
    /\ trPc' = "walk"
    /\ UNCHANGED <<trImage, trPWidth, trPHeight, trVisited, trActive,
                   trRawStrokes, trOrderedStrokes, trMergedStrokes,
                   trSmoothedStrokes, trFinalStrokes, trStages, trOutcome, trResult>>
    /\ UNCHANGED <<dsVars, osVars, mpVars, ppVars, aeVars, rcVars, dzVars>>

\* The outer loop ends: its test fails (the safety counter is at its limit),
\* or the iteration finds no seed, sets active to false and breaks.
LeaveWalker ==
    /\ trPc = "seek"
    /\ IF OuterLoopRuns(trActive, trSafetyCounter)
       THEN /\ FirstInk(trVisited, trGlobalSearchIdx, trPWidth * trPHeight) = -1
            /\ trSafetyCounter' = trSafetyCounter + 1
            /\ trGlobalSearchIdx' = Max(trGlobalSearchIdx, trPWidth * trPHeight)
            /\ trActive' = FALSE
       ELSE UNCHANGED <<trSafetyCounter, trGlobalSearchIdx, trActive>>
    /\ trPc' = "order"
    /\ trStages' = Append(trStages, "walk")
    /\ UNCHANGED <<trImage, trPWidth, trPHeight, trVisited, trStrokePoints,
                   trCurrentPos, trTracing, trStrokeSafety,
                   trRawStrokes, trOrderedStrokes, trMergedStrokes,
                   trSmoothedStrokes, trFinalStrokes, trOutcome, trResult>>
    /\ UNCHANGED <<dsVars, osVars, mpVars, ppVars, aeVars, rcVars, dzVars>>

\* An iteration of the inner loop: a point is pushed, ink is consumed, and
\* the position moves to the centroid of the ink left in the search window.
WalkStep ==
    /\ trPc = "walk"
    /\ InnerLoopRuns(trTracing, trStrokeSafety)
    /\ trStrokeSafety' = trStrokeSafety + 1
    /\ \E cx \in {RoundDiv(trCurrentPos.sumX, trCurrentPos.count)} :
         \E cy \in {RoundDiv(trCurrentPos.sumY, trCurrentPos.count)} :
           /\ trStrokePoints' = Push(trStrokePoints,
                  WalkerPoint(trCurrentPos, cx, cy, trVisited, trImage.data,
                              trPWidth, trPHeight))
           /\ trVisited' = Consume(trVisited, cx, cy, trPWidth)
           /\ \E c \in {Centroid(trVisited', cx, cy, trPWidth, trPHeight)} :
                 IF c.count > 0
                 THEN trCurrentPos' = c /\ trTracing' = TRUE
                 ELSE trCurrentPos' = trCurrentPos /\ trTracing' = FALSE
    /\ UNCHANGED <<trPc, trImage, trPWidth, trPHeight, trGlobalSearchIdx, trActive,
                   trSafetyCounter, trRawStrokes, trOrderedStrokes, trMergedStrokes,
                   trSmoothedStrokes, trFinalStrokes, trStages, trOutcome, trResult>>
    /\ UNCHANGED <<dsVars, osVars, mpVars, ppVars, aeVars, rcVars, dzVars>>

\* The inner loop ends (no ink left in the window, or the safety counter is
\* at its limit): the stroke is kept when it has more than 3 points.
EndStroke ==
    /\ trPc = "walk"
    /\ ~InnerLoopRuns(trTracing, trStrokeSafety)
    /\ trRawStrokes' = IF Length(trStrokePoints) > 3
                       THEN Append(trRawStrokes, [points |-> Points(trStrokePoints)])
                       ELSE trRawStrokes
    /\ trPc' = "seek"
    /\ UNCHANGED <<trImage, trPWidth, trPHeight, trVisited, trGlobalSearchIdx,
                   trActive, trSafetyCounter, trStrokePoints, trCurrentPos,
                   trTracing, trStrokeSafety, trOrderedStrokes, trMergedStrokes,
                   trSmoothedStrokes, trFinalStrokes, trStages, trOutcome, trResult>>
    /\ UNCHANGED <<dsVars, osVars, mpVars, ppVars, aeVars, rcVars, dzVars>>

\* `const orderedStrokes = optimizeStrokeOrder(rawStrokes)`
OrderStrokes ==
    /\ trPc = "order"
    /\ trOrderedStrokes' = optimizeStrokeOrder(trRawStrokes)
    /\ trPc' = "merge"
    /\ trStages' = Append(trStages, "order")
    /\ UNCHANGED <<trImage, trPWidth, trPHeight, trVisited, trGlobalSearchIdx,
                   trActive, trSafetyCounter, trStrokePoints, trCurrentPos,
                   trTracing, trStrokeSafety, trRawStrokes, trMergedStrokes,
                   trSmoothedStrokes, trFinalStrokes, trOutcome, trResult>>
    /\ UNCHANGED <<dsVars, osVars, mpVars, ppVars, aeVars, rcVars, dzVars>>

\* The merge loop.
MergeOrdered ==
    /\ trPc = "merge"
    /\ trMergedStrokes' = MergeStrokes(trOrderedStrokes)
    /\ trPc' = "smooth"
    /\ trStages' = Append(trStages, "merge")
    /\ UNCHANGED <<trImage, trPWidth, trPHeight, trVisited, trGlobalSearchIdx,
                   trActive, trSafetyCounter, trStrokePoints, trCurrentPos,
                   trTracing, trStrokeSafety, trRawStrokes, trOrderedStrokes,
                   trSmoothedStrokes, trFinalStrokes, trOutcome, trResult>>
    /\ UNCHANGED <<dsVars, osVars, mpVars, ppVars, aeVars, rcVars, dzVars>>

\* `const smoothedStrokes = mergedStrokes.map(...)`
SmoothMerged ==
    /\ trPc = "smooth"
    /\ trSmoothedStrokes' =
          [i \in 1..Len(trMergedStrokes) |->
              [trMergedStrokes[i] EXCEPT !.points = smoothPoints(@)]]
    /\ trPc' = "post"
    /\ trStages' = Append(trStages, "smooth")
    /\ UNCHANGED <<trImage, trPWidth, trPHeight, trVisited, trGlobalSearchIdx,
                   trActive, trSafetyCounter, trStrokePoints, trCurrentPos,
                   trTracing, trStrokeSafety, trRawStrokes, trOrderedStrokes,
                   trMergedStrokes, trFinalStrokes, trOutcome, trResult>>
    /\ UNCHANGED <<dsVars, osVars, mpVars, ppVars, aeVars, rcVars, dzVars>>

\* The post-processing loop over smoothedStrokes.
PostProcess ==
    /\ trPc = "post"
    /\ trFinalStrokes' = PostProcessFrom(trSmoothedStrokes, 1, trVisited,
                                         trPWidth, trPHeight)
    /\ trPc' = "resolve"
    /\ trStages' = Append(trStages, "post")
    /\ UNCHANGED <<trImage, trPWidth, trPHeight, trVisited, trGlobalSearchIdx,
                   trActive, trSafetyCounter, trStrokePoints, trCurrentPos,
                   trTracing, trStrokeSafety, trRawStrokes, trOrderedStrokes,
                   trMergedStrokes, trSmoothedStrokes, trOutcome, trResult>>
    /\ UNCHANGED <<dsVars, osVars, mpVars, ppVars, aeVars, rcVars, dzVars>>

\* `resolve({ strokes: finalStrokes, metadata: ... })`
Resolve ==
    /\ trPc = "resolve"
    /\ trOutcome' = Settle(trFinalStrokes)
    /\ trResult' = << [strokes |-> trFinalStrokes,
                       original_size |-> <<trImage.width, trImage.height>>] >>
    /\ trPc' = "done"
    /\ UNCHANGED <<trImage, trPWidth, trPHeight, trVisited, trGlobalSearchIdx,
                   trActive, trSafetyCounter, trStrokePoints, trCurrentPos,
                   trTracing, trStrokeSafety, trRawStrokes, trOrderedStrokes,
                   trMergedStrokes, trSmoothedStrokes, trFinalStrokes, trStages>>
    /\ UNCHANGED <<dsVars, osVars, mpVars, ppVars, aeVars, rcVars, dzVars>>

TrNext ==
    \/ ImageError \/ OnLoadThrows \/ OnLoadBuildMask
    \/ SeekStroke \/ LeaveWalker \/ WalkStep \/ EndStroke
    \/ OrderStrokes \/ MergeOrdered \/ SmoothMerged \/ PostProcess \/ Resolve

SpecTracer == TrInit /\ [][TrNext]_vars

TrPositions ==
    {"loading", "seek", "walk", "order", "merge", "smooth", "post", "resolve", "done"}

\* A step of the handler, seen from its position and the inner loop's
\* counter: every step of TrNext moves the one or advances the other.
HandlerRuns ==
    /\ trPc # "done"
    /\ trPc' \in TrPositions
    /\ trStrokeSafety' \in {0, trStrokeSafety + 1}

\* The image's events are delivered and the handler, which nothing preempts,
\* runs to its end.
SpecTracerFair == SpecTracer /\ WF_<<trPc, trStrokeSafety>>(HandlerRuns)

(***************************************************************************)
(* SpecPost: the post-processing loop of analyzeSignatureLocal on its own, *)
(* one action per iteration, applied to short lists of smoothed strokes    *)
(* over one mask                                                           *)
(***************************************************************************)
\* The mask: 400 x 2 cells, so that a cell is 25 units wide.  Columns 40..79
\* (x from 1000 up to 2000) are ink in both rows; the walker has consumed
\* them but for the last four columns.
PpMaskWidth == 400
PpMaskHeight == 2
PpMask ==
    [i \in 0..(PpMaskWidth * PpMaskHeight - 1) |->
        IF (i % PpMaskWidth) \in 40..75 THEN 2
        ELSE IF (i % PpMaskWidth) \in 76..79 THEN 1
        ELSE 0]

\* The smoothed strokes the lists are drawn from, one for every way through
\* the body of the loop:
\*   a straight stroke on the ink (simplified to its 2 ends, kept);
\*   a stroke with two corners on the ink (keeps its 4 points);
\*   the same with a point in the middle of its first segment (5 points,
\*     simplified to 4);
\*   a stroke whose points lie within 10 units of each other but for the
\*     last (2 points after the dedup);
\*   a stroke whose middle point is far off the ink (2 points after the
\*     on-ink filter);
\*   a stroke that zigzags in steps of 20 to 30 units (2 points after the
\*     jitter filter);
\*   a straight stroke over the ink whose ends are off the ink (simplified
\*     to its ends, coverage 0 of 2);
\*   a stroke with one corner on the ink and both ends off it (coverage 2
\*     of 4);
\*   a stroke with two corners on the ink and both ends off it (coverage 4
\*     of 6);
\*   a stroke along the lower edge y = 10000, whose cells are below the
\*     mask (nothing to check);
\*   a stroke that creeps 10 units forward in two steps and then falls back
\*     behind its first point, as the smoothed points do where a stalled
\*     stroke, reversed, leaves its stall;
\*   a stroke that goes forward in three steps of 12 units and falls back to
\*     its start (the jitter filter drops its fourth point, then its third);
\*   a stroke that goes to a far point, comes back to its first point and
\*     goes on (the simplification meets a base of length 0).
PpPool ==
    { Stk(<<PtZ(1000, 2500, 150, 1000), PtZ(1300, 2500, 150, 1000),
            PtZ(1600, 2500, 150, 1000), PtZ(1900, 2500, 150, 1000)>>),
      Stk(<<PtZ(1000, 2500, 150, 1000), PtZ(1500, 2500, 150, 1000),
            PtZ(1500, 7500, 150, 1000), PtZ(1900, 7500, 150, 1000)>>),
      Stk(<<PtZ(1000, 2500, 150, 1000), PtZ(1250, 2500, 150, 1000),
            PtZ(1500, 2500, 150, 1000), PtZ(1500, 7500, 150, 1000),
            PtZ(1900, 7500, 150, 1000)>>),
      Stk(<<PtZ(1000, 2500, 150, 1000), PtZ(1005, 2500, 150, 1000),
            PtZ(1008, 2500, 150, 1000), PtZ(1500, 2500, 150, 1000)>>),
      Stk(<<PtZ(1900, 2500, 150, 1000), PtZ(3000, 2500, 150, 1000),
            PtZ(1950, 2500, 150, 1000)>>),
      Stk(<<PtZ(1000, 2500, 150, 1000), PtZ(1030, 2500, 150, 1000),
            PtZ(1010, 2500, 150, 1000), PtZ(1040, 2500, 150, 1000)>>),
      Stk(<<PtZ(3000, 2500, 150, 1000), PtZ(1500, 2500, 150, 1000),
            PtZ(3500, 2500, 150, 1000)>>),
      Stk(<<PtZ(3000, 2500, 150, 1000), PtZ(1500, 7500, 150, 1000),
            PtZ(3500, 2500, 150, 1000)>>),
      Stk(<<PtZ(3000, 2500, 150, 1000), PtZ(1200, 7500, 150, 1000),
            PtZ(1800, 7500, 150, 1000), PtZ(3500, 2500, 150, 1000)>>),
      Stk(<<PtZ(1000, 10000, 150, 1000), PtZ(1500, 10000, 150, 1000),
            PtZ(1900, 10000, 150, 1000)>>),
      Stk(<<PtZ(1158, 5556, 150, 1000), PtZ(1159, 5556, 150, 1000),
            PtZ(1168, 5556, 150, 1000), PtZ(1164, 5556, 150, 1000),
            PtZ(1150, 5556, 150, 1000), PtZ(1130, 5556, 150, 1000),
            PtZ(1110, 5556, 150, 1000)>>),
      Stk(<<PtZ(1000, 2500, 150, 1000), PtZ(1012, 2500, 150, 1000),
            PtZ(1024, 2500, 150, 1000), PtZ(1036, 2500, 150, 1000),
            PtZ(1002, 2500, 150, 1000)>>),
      Stk(<<PtZ(1000, 2500, 150, 1000), PtZ(1500, 7500, 150, 1000),
            PtZ(1000, 2500, 150, 1000), PtZ(1900, 2500, 150, 1000)>>) }

\* Longest smoothedStrokes tried.
MaxPostStrokes == 2

PpInit ==
    /\ ppPc = "loop"
    /\ ppSmoothedStrokes \in UNION {[1..k -> PpPool] : k \in 0..MaxPostStrokes}
    /\ ppVisited = PpMask /\ ppWidth = PpMaskWidth /\ ppHeight = PpMaskHeight
    /\ ppIndex = 0
    /\ ppDeduped = <<>> /\ ppOnInkPoints = <<>> /\ ppJitterFreePoints = <<>>
    /\ ppFinalPoints = <<>> /\ ppExit = "none" /\ ppFinalStrokes = <<>>
    /\ DsIdle /\ OsIdle /\ MpIdle /\ TrIdle /\ AeIdle /\ RcIdle /\ DzIdle

\* A checkpoint that lets strokes of 2 points through.
TooShort_BelowTwo(points) == Len(points) < 2

\* The checkpoints of the loop: `deduped.length < 3` and
\* `jitterFreePoints.length < 3`.
TooShort(points) == Len(points) < 3

\* `if (deduped.length < 3) continue`
PostSkipDeduped ==
    /\ ppPc = "loop" /\ ppIndex < Len(ppSmoothedStrokes)
    /\ \E deduped \in {Dedupe(ppSmoothedStrokes[ppIndex + 1].points)} :
          /\ TooShort(deduped)
          /\ ppDeduped' = deduped
    /\ ppOnInkPoints' = <<>> /\ ppJitterFreePoints' = <<>> /\ ppFinalPoints' = <<>>
    /\ ppExit' = "short"
    /\ ppIndex' = ppIndex + 1
    /\ UNCHANGED <<ppPc, ppSmoothedStrokes, ppVisited, ppWidth, ppHeight,
                   ppFinalStrokes>>
    /\ UNCHANGED <<dsVars, osVars, mpVars, trVars, aeVars, rcVars, dzVars>>

\* `if (jitterFreePoints.length < 3) continue`
PostSkipJitterFree ==
    /\ ppPc = "loop" /\ ppIndex < Len(ppSmoothedStrokes)
    /\ \E deduped \in {Dedupe(ppSmoothedStrokes[ppIndex + 1].points)} :
          /\ ~TooShort(deduped)
          /\ \E onInkPoints \in {OnInkPoints(deduped, ppVisited, ppWidth, ppHeight)} :
                /\ TooShort(filterJitter(onInkPoints))
                /\ ppDeduped' = deduped
                /\ ppOnInkPoints' = onInkPoints
                /\ ppJitterFreePoints' = filterJitter(onInkPoints)
    /\ ppFinalPoints' = <<>>
    /\ ppExit' = "jitter"
    /\ ppIndex' = ppIndex + 1
    /\ UNCHANGED <<ppPc, ppSmoothedStrokes, ppVisited, ppWidth, ppHeight,
                   ppFinalStrokes>>
    /\ UNCHANGED <<dsVars, osVars, mpVars, trVars, aeVars, rcVars, dzVars>>

\* The iteration gets to the simplification: the locals it leaves behind,
\* given its candidateStroke's fate.
PostSimplified(keeps) ==
    /\ ppPc = "loop" /\ ppIndex < Len(ppSmoothedStrokes)
    /\ \E deduped \in {Dedupe(ppSmoothedStrokes[ppIndex + 1].points)} :
          /\ ~TooShort(deduped)
          /\ \E onInkPoints \in {OnInkPoints(deduped, ppVisited, ppWidth, ppHeight)} :
             \E jitterFreePoints \in {filterJitter(onInkPoints)} :
                /\ ~TooShort(jitterFreePoints)
                /\ \E finalPoints \in {Simplify(jitterFreePoints)} :
                      /\ keeps = validateStrokeCoverage(
                                    [ppSmoothedStrokes[ppIndex + 1]
                                        EXCEPT !.points = finalPoints],
                                    ppVisited, ppWidth, ppHeight)
                      /\ ppFinalPoints' = finalPoints
                      /\ ppFinalStrokes' =
                            IF keeps
                            THEN Append(ppFinalStrokes,
                                        [ppSmoothedStrokes[ppIndex + 1]
                                            EXCEPT !.points = finalPoints])
                            ELSE ppFinalStrokes
                /\ ppDeduped' = deduped
                /\ ppOnInkPoints' = onInkPoints
                /\ ppJitterFreePoints' = jitterFreePoints
    /\ ppExit' = IF keeps THEN "pushed" ELSE "uncovered"
    /\ ppIndex' = ppIndex + 1
    /\ UNCHANGED <<ppPc, ppSmoothedStrokes, ppVisited, ppWidth, ppHeight>>
    /\ UNCHANGED <<dsVars, osVars, mpVars, trVars, aeVars, rcVars, dzVars>>

\* `finalStrokes.push(candidateStroke)`
PostPush == PostSimplified(TRUE)

\* validateStrokeCoverage returns false: nothing is pushed.
PostDrop == PostSimplified(FALSE)

\* The loop is through smoothedStrokes.
PostDone ==
    /\ ppPc = "loop" /\ ppIndex = Len(ppSmoothedStrokes)
    /\ ppPc' = "done"
    /\ UNCHANGED <<ppSmoothedStrokes, ppVisited, ppWidth, ppHeight, ppIndex,
                   ppDeduped, ppOnInkPoints, ppJitterFreePoints, ppFinalPoints,
                   ppExit, ppFinalStrokes>>
    /\ UNCHANGED <<dsVars, osVars, mpVars, trVars, aeVars, rcVars, dzVars>>

PpNext ==
    \/ PostSkipDeduped \/ PostSkipJitterFree \/ PostPush \/ PostDrop \/ PostDone

SpecPost == PpInit /\ [][PpNext]_vars

(***************************************************************************)
(* SpecEngine: AnimationEngine.start up to the scaled plan.  The call of   *)
(* generateMotionPlan inside start runs as the actions of the planner; the *)
(* engine then scales the returned paths.  Numbers are binary floating     *)
(* point in the source, so the quotient targetMs / naturalDuration and     *)
(* every product with it are rounded to the nearest number there is; the   *)
(* model rounds them too, the ratio to thousandths and the products to     *)
(* hundredths of a millisecond.                                            *)
(***************************************************************************)
\* The ratio is kept in thousandths.
RatioUnit == 1000

\* this.targetDuration, in tenths of a second: the ends of the slider's
\* range and its initial value.
AeDurations == {5, 20, 100}

\* Longest data.strokes tried by the engine.
MaxEngineStrokes == 2

\* `this.targetDuration * 1000`, in hundredths of a millisecond.
targetMs(targetDuration) == targetDuration * 10000

\* `targetMs / naturalDuration`
Ratio(target, naturalDuration) == RoundDiv(target * RatioUnit, naturalDuration)

\* `time *= ratio`
Scaled(time, ratio) == RoundDiv(time * ratio, RatioUnit)

\* A path whose startTime is left as it was.
ScalePath_StartKept(path, ratio) ==
    [path EXCEPT !.endTime = Scaled(path.endTime, ratio),
                 !.points = [k \in 1..Len(path.points) |->
                               [path.points[k] EXCEPT
                                   !.time = Scaled(path.points[k].time, ratio)]]]

\* The body of `paths.forEach(path => ...)` in the scaling.
ScalePath(path, ratio) ==
    [path EXCEPT !.startTime = Scaled(path.startTime, ratio),
                 !.endTime = Scaled(path.endTime, ratio),
                 !.points = [k \in 1..Len(path.points) |->
                               [path.points[k] EXCEPT
                                   !.time = Scaled(path.points[k].time, ratio)]]]

\* `naturalDuration`, 0 for an empty plan.
naturalDuration(paths) == IF Len(paths) > 0 THEN paths[Len(paths)].endTime ELSE 0

\* The block `// Scale paths`.
ScalePaths(paths, targetDuration) ==
    IF Len(paths) > 0 /\ naturalDuration(paths) > 0
    THEN [i \in 1..Len(paths) |->
            ScalePath(paths[i], Ratio(targetMs(targetDuration), naturalDuration(paths)))]
    ELSE paths

AeInit ==
    /\ aePc = "start"
    /\ aeTargetDuration \in AeDurations
    /\ aePaths = <<>> /\ aeAnimationEndTime = 0
    /\ mpPc = "call"
    /\ mpData \in { d \in MpInputs : d.isNull \/ Len(d.strokes) <= MaxEngineStrokes }
    /\ \E c \in MpCanvases : mpCanvasWidth = c[1] /\ mpCanvasHeight = c[2]
    /\ mpStyle \in MpStyles
    /\ mpIndex = 0 /\ mpPaths = <<>> /\ mpCurrentTime = 0
    /\ mpPrevEndPos = <<>> /\ mpResult = <<>>
    /\ DsIdle /\ OsIdle /\ TrIdle /\ PpIdle /\ RcIdle /\ DzIdle

\* start, from the return of generateMotionPlan on: the paths are scaled and
\* animationEndTime is read.
StartScale ==
    /\ aePc = "start" /\ mpPc = "returned"
    /\ \E paths \in {ScalePaths(mpResult, aeTargetDuration)} :
          /\ aePaths' = paths
          /\ aeAnimationEndTime' = IF Len(paths) > 0 THEN paths[Len(paths)].endTime
                                   ELSE 200000
    /\ aePc' = "started"
    /\ UNCHANGED aeTargetDuration
    /\ UNCHANGED <<dsVars, osVars, mpVars, trVars, ppVars, rcVars, dzVars>>

AeNext == MpNext \/ StartScale

SpecEngine == AeInit /\ [][AeNext]_vars

(***************************************************************************)
(* SpecRecorder: start, stop, the frames of the loop and the timer that    *)
(* start sets for startVideoRecording, in the orders the event loop can    *)
(* run them.  Each runs from its first line to its last, uninterrupted.    *)
(***************************************************************************)
\* What start is called with; "null" is the default.
ExportFormats == {"null", "gif", "mp4", "mp4-silent"}

\* Most calls of start, and most frames the loop draws before its last one.
MaxStarts == 3
MaxFrames == 2

\* `exportFormat === 'mp4' || exportFormat === 'mp4-silent'`
IsVideo(exportFormat) == exportFormat \in {"mp4", "mp4-silent"}

\* setupVideoRecording: a new recorder, inactive; where captureStream or the
\* constructor throws, the catch leaves this.mediaRecorder as it was.
setupVideoRecording(mediaRecorder, throws) ==
    IF throws THEN mediaRecorder ELSE "inactive"

\* startVideoRecording, on this.mediaRecorder.
startVideoRecording(mediaRecorder) ==
    IF mediaRecorder = "inactive" THEN "recording" ELSE mediaRecorder

\* stopVideoRecording, on this.mediaRecorder.
stopVideoRecording(mediaRecorder) ==
    IF mediaRecorder = "recording" THEN "inactive" ELSE mediaRecorder

RcInit ==
    /\ rcRafId = "null" /\ rcMediaRecorder = "null" /\ rcIsRecording = FALSE
    /\ rcExportFormat = "null" /\ rcTimers = 0 /\ rcFrames = 0
    /\ rcStarts = 0 /\ rcLastCall = "new"
    /\ DsIdle /\ OsIdle /\ MpIdle /\ TrIdle /\ PpIdle /\ AeIdle /\ DzIdle

\* start(exportFormat): stop(), then the recorder is set up and the timer
\* set for a video format, and the first frame is requested.
start ==
    /\ rcStarts < MaxStarts
    /\ \E exportFormat \in ExportFormats, throws \in BOOLEAN :
          /\ rcExportFormat' = exportFormat
          /\ rcMediaRecorder' =
                IF IsVideo(exportFormat)
                THEN setupVideoRecording(stopVideoRecording(rcMediaRecorder), throws)
                ELSE stopVideoRecording(rcMediaRecorder)
          /\ rcTimers' = IF IsVideo(exportFormat) THEN rcTimers + 1 ELSE rcTimers
    /\ rcIsRecording' = FALSE
    /\ rcRafId' = "scheduled" /\ rcFrames' = 0
    /\ rcStarts' = rcStarts + 1
    /\ rcLastCall' = "start"
    /\ UNCHANGED <<dsVars, osVars, mpVars, trVars, ppVars, aeVars, dzVars>>

\* stop(): the frame is cancelled and the recorder stopped if it records.
stop ==
    /\ rcRafId' = "null"
    /\ rcMediaRecorder' = stopVideoRecording(rcMediaRecorder)
    /\ rcIsRecording' = FALSE
    /\ rcLastCall' = "stop"
    /\ UNCHANGED <<rcExportFormat, rcTimers, rcFrames, rcStarts>>
    /\ UNCHANGED <<dsVars, osVars, mpVars, trVars, ppVars, aeVars, dzVars>>

\* A timer of start fires: `() => this.startVideoRecording()`.
TimerFires ==
    /\ rcTimers > 0
    /\ rcTimers' = rcTimers - 1
    /\ rcMediaRecorder' = startVideoRecording(rcMediaRecorder)
    /\ rcIsRecording' = (rcIsRecording \/ rcMediaRecorder = "inactive")
    /\ UNCHANGED <<rcRafId, rcExportFormat, rcFrames, rcStarts, rcLastCall>>
    /\ UNCHANGED <<dsVars, osVars, mpVars, trVars, ppVars, aeVars, dzVars>>

\* A frame of the loop with elapsed < loopDuration: the next one is requested.
Frame ==
    /\ rcRafId = "scheduled"
    /\ rcFrames < MaxFrames
    /\ rcFrames' = rcFrames + 1
    /\ UNCHANGED <<rcRafId, rcMediaRecorder, rcIsRecording, rcExportFormat,
                   rcTimers, rcStarts, rcLastCall>>
    /\ UNCHANGED <<dsVars, osVars, mpVars, trVars, ppVars, aeVars, dzVars>>

\* The frame with elapsed >= loopDuration: finish().  loopDuration is at
\* least 1000 ms, so the timers, due 50 ms after a start, have fired.
LastFrame ==
    /\ rcRafId = "scheduled"
    /\ rcTimers = 0
    /\ rcRafId' = "run"
    /\ rcMediaRecorder' = stopVideoRecording(rcMediaRecorder)
    /\ rcIsRecording' = FALSE
    /\ rcExportFormat' = "null"
    /\ UNCHANGED <<rcTimers, rcFrames, rcStarts, rcLastCall>>
    /\ UNCHANGED <<dsVars, osVars, mpVars, trVars, ppVars, aeVars, dzVars>>

RcNext == start \/ stop \/ TimerFires \/ Frame \/ LastFrame

SpecRecorder == RcInit /\ [][RcNext]_vars

(***************************************************************************)
(* SpecDropZone: the handlers of App for one item of `items`, and the      *)
(* promises they wait for.  A handler runs to its first await in one step; *)
(* what follows the await, and a `then` callback, run as steps of their    *)
(* own when the promise settles.  An image is a number: 0 is item.original *)
(* and n is the n-th image refineSignature or editSignature returned; 0 is *)
(* also `null` for item.processed.  item.analysis is <<>> for null, else   *)
(* a list of one record: the call of performAnalysis that made it, the     *)
(* image it analysed, and whether the insight was added to its notes.      *)
(***************************************************************************)
\* Most calls of performAnalysis, and most images asked from refineSignature
\* and editSignature.
MaxRuns == 2
MaxImages == 2

\* `getActiveImage`
getActiveImage(item) ==
    IF item.selectedSource = "refined" /\ item.processed # 0
    THEN item.processed ELSE 0

\* `isLoading`, which disables the Refine, Analyze and Edit buttons.
isLoading(item) == item.status \in {"refining", "analyzing", "editing"}

DzInit ==
    /\ dzItem = [processed |-> 0, selectedSource |-> "original",
                 analysis |-> <<>>, status |-> "idle"]
    /\ dzPrompt = FALSE /\ dzRefines = 0 /\ dzEdits = 0
    /\ dzAnalyses = {} /\ dzInsights = {} /\ dzRuns = 0 /\ dzImages = 0
    /\ DsIdle /\ OsIdle /\ MpIdle /\ TrIdle /\ PpIdle /\ AeIdle /\ RcIdle

\* The prompt field is typed into.
TypePrompt ==
    /\ ~dzPrompt
    /\ dzPrompt' = TRUE
    /\ UNCHANGED <<dzItem, dzRefines, dzEdits, dzAnalyses, dzInsights, dzRuns, dzImages>>
    /\ UNCHANGED <<dsVars, osVars, mpVars, trVars, ppVars, aeVars, rcVars>>

\* handleSourceSelect(id, source), from the selector that is shown once the
\* item has a processed image.
handleSourceSelect ==
    /\ dzItem.processed # 0
    /\ \E source \in {"original", "refined"} :
          /\ dzItem.selectedSource # source
          /\ dzItem' = [dzItem EXCEPT !.selectedSource = source,
                                      !.analysis = <<>>, !.status = "idle"]
    /\ UNCHANGED <<dzPrompt, dzRefines, dzEdits, dzAnalyses, dzInsights, dzRuns, dzImages>>
    /\ UNCHANGED <<dsVars, osVars, mpVars, trVars, ppVars, aeVars, rcVars>>

\* handleRefine, up to `await refineSignature(...)`.
handleRefine ==
    /\ ~isLoading(dzItem)
    /\ dzImages + dzRefines + dzEdits < MaxImages
    /\ dzItem' = [dzItem EXCEPT !.status = "refining"]
    /\ dzRefines' = dzRefines + 1
    /\ UNCHANGED <<dzPrompt, dzEdits, dzAnalyses, dzInsights, dzRuns, dzImages>>
    /\ UNCHANGED <<dsVars, osVars, mpVars, trVars, ppVars, aeVars, rcVars>>

\* handleRefine, after the await: refineSignature has returned an image.
RefineResolves ==
    /\ dzRefines > 0
    /\ dzRefines' = dzRefines - 1
    /\ dzImages' = dzImages + 1
    /\ dzItem' = [dzItem EXCEPT !.processed = dzImages + 1,
                                !.selectedSource = "refined",
                                !.analysis = <<>>, !.status = "idle"]
    /\ UNCHANGED <<dzPrompt, dzEdits, dzAnalyses, dzInsights, dzRuns>>
    /\ UNCHANGED <<dsVars, osVars, mpVars, trVars, ppVars, aeVars, rcVars>>

\* handleRefine, the catch.
RefineRejects ==
    /\ dzRefines > 0
    /\ dzRefines' = dzRefines - 1
    /\ dzItem' = [dzItem EXCEPT !.status = "error"]
    /\ UNCHANGED <<dzPrompt, dzEdits, dzAnalyses, dzInsights, dzRuns, dzImages>>
    /\ UNCHANGED <<dsVars, osVars, mpVars, trVars, ppVars, aeVars, rcVars>>

\* performAnalysis(item), up to `await analyzeSignatureLocal(imgToAnalyze)`.
performAnalysis ==
    /\ dzRuns < MaxRuns
    /\ dzRuns' = dzRuns + 1
    /\ dzItem' = [dzItem EXCEPT !.status = "analyzing"]
    /\ dzAnalyses' = dzAnalyses \cup {[run |-> dzRuns + 1, image |-> getActiveImage(dzItem)]}
    /\ UNCHANGED <<dzPrompt, dzRefines, dzEdits, dzInsights, dzImages>>
    /\ UNCHANGED <<dsVars, osVars, mpVars, trVars, ppVars, aeVars, rcVars>>

\* handleAnalyze, from the Analyze button.
handleAnalyze == ~isLoading(dzItem) /\ performAnalysis

\* handleAnalyzeAll, from its button, which is disabled while an item is
\* being analysed: the loop calls performAnalysis for an item without analysis.
handleAnalyzeAll ==
    /\ dzItem.status # "analyzing"
    /\ dzItem.analysis = <<>>
    /\ performAnalysis

\* performAnalysis, after the await: generateRapidInsight is called with a
\* callback that holds `result`, and the item gets the analysis.
AnalysisResolves ==
    /\ \E call \in dzAnalyses :
          /\ dzAnalyses' = dzAnalyses \ {call}
          /\ dzInsights' = dzInsights \cup {call}
          /\ dzItem' = [dzItem EXCEPT
                 !.analysis = <<[run |-> call.run, image |-> call.image, insight |-> FALSE]>>,
                 !.status = "success"]
    /\ UNCHANGED <<dzPrompt, dzRefines, dzEdits, dzRuns, dzImages>>
    /\ UNCHANGED <<dsVars, osVars, mpVars, trVars, ppVars, aeVars, rcVars>>

\* performAnalysis, the catch.
AnalysisRejects ==
    /\ \E call \in dzAnalyses : dzAnalyses' = dzAnalyses \ {call}
    /\ dzItem' = [dzItem EXCEPT !.status = "error"]
    /\ UNCHANGED <<dzPrompt, dzRefines, dzEdits, dzInsights, dzRuns, dzImages>>
    /\ UNCHANGED <<dsVars, osVars, mpVars, trVars, ppVars, aeVars, rcVars>>

\* The `then` callback of generateRapidInsight: the item gets `result` with
\* the insight in its notes.
InsightResolves ==
    /\ \E call \in dzInsights :
          /\ dzInsights' = dzInsights \ {call}
          /\ dzItem' = [dzItem EXCEPT
                 !.analysis = <<[run |-> call.run, image |-> call.image, insight |-> TRUE]>>]
    /\ UNCHANGED <<dzPrompt, dzRefines, dzEdits, dzAnalyses, dzRuns, dzImages>>
    /\ UNCHANGED <<dsVars, osVars, mpVars, trVars, ppVars, aeVars, rcVars>>

\* `.catch(console.warn)`
InsightRejects ==
    /\ \E call \in dzInsights : dzInsights' = dzInsights \ {call}
    /\ UNCHANGED <<dzItem, dzPrompt, dzRefines, dzEdits, dzAnalyses, dzRuns, dzImages>>
    /\ UNCHANGED <<dsVars, osVars, mpVars, trVars, ppVars, aeVars, rcVars>>

\* handleEdit, up to `await editSignature(imgToEdit, prompt)`.
handleEdit ==
    /\ ~isLoading(dzItem) /\ dzPrompt
    /\ dzImages + dzRefines + dzEdits < MaxImages
    /\ dzItem' = [dzItem EXCEPT !.status = "editing"]
    /\ dzEdits' = dzEdits + 1
    /\ UNCHANGED <<dzPrompt, dzRefines, dzAnalyses, dzInsights, dzRuns, dzImages>>
    /\ UNCHANGED <<dsVars, osVars, mpVars, trVars, ppVars, aeVars, rcVars>>

\* handleEdit, after the await.
EditResolves ==
    /\ dzEdits > 0
    /\ dzEdits' = dzEdits - 1
    /\ dzImages' = dzImages + 1
    /\ dzItem' = [dzItem EXCEPT !.processed = dzImages + 1,
                                !.selectedSource = "refined",
                                !.analysis = <<>>, !.status = "idle"]
    /\ dzPrompt' = FALSE
    /\ UNCHANGED <<dzRefines, dzAnalyses, dzInsights, dzRuns>>
    /\ UNCHANGED <<dsVars, osVars, mpVars, trVars, ppVars, aeVars, rcVars>>

\* handleEdit, the catch.
EditRejects ==
    /\ dzEdits > 0
    /\ dzEdits' = dzEdits - 1
    /\ dzItem' = [dzItem EXCEPT !.status = "error"]
    /\ UNCHANGED <<dzPrompt, dzRefines, dzAnalyses, dzInsights, dzRuns, dzImages>>
    /\ UNCHANGED <<dsVars, osVars, mpVars, trVars, ppVars, aeVars, rcVars>>

DzNext ==
    \/ TypePrompt \/ handleSourceSelect
    \/ handleRefine \/ RefineResolves \/ RefineRejects
    \/ handleAnalyze \/ handleAnalyzeAll \/ AnalysisResolves \/ AnalysisRejects
    \/ InsightResolves \/ InsightRejects
    \/ handleEdit \/ EditResolves \/ EditRejects

SpecDropZone == DzInit /\ [][DzNext]_vars

\* The mapped points of stroke i of data, and what filterRedundantPoints
\* makes of them.
MappedOf(i) == mappedPoints(mpData.strokes[i].points, mpCanvasWidth, mpCanvasHeight)
FilteredOf(i) == filterRedundantPoints(MappedOf(i))

\* C27: filterRedundantPoints returns a subsequence of its input that begins
\* with the first point of the input and ends at the coordinates of its last
\* point, and of which every two consecutive points but the last two are
\* more than 0.1 px squared apart.
C27_RedundantPointsFiltered ==
    mpPc \in {"forEach", "returned"} =>
        \A i \in 1..mpIndex :
            /\ \E kept \in SUBSET (1..Len(MappedOf(i))) :
                  FilteredOf(i) = FilterIdx(MappedOf(i), kept)
            /\ FilteredOf(i)[1] = MappedOf(i)[1]
            /\ FilteredOf(i)[Len(FilteredOf(i))].x = MappedOf(i)[Len(MappedOf(i))].x
            /\ FilteredOf(i)[Len(FilteredOf(i))].y = MappedOf(i)[Len(MappedOf(i))].y
            /\ \A k \in 1..(Len(FilteredOf(i)) - 2) :
                  distSq(FilteredOf(i)[k], FilteredOf(i)[k + 1]) > 10

\* The planner has been through a stroke of 5 points of which the filter
\* dropped the second, and kept the last, 0.2 px from the point before it.
C27_Witness ==
    /\ mpPc = "forEach" /\ mpIndex = 1
    /\ Len(MappedOf(1)) = 5 /\ Len(FilteredOf(1)) = 4
    /\ FilteredOf(1)[2] = MappedOf(1)[3]
    /\ distSq(FilteredOf(1)[3], FilteredOf(1)[4]) = 4
    /\ Len(mpPaths) = 1 /\ Len(mpPaths[1].points) = 4

(***************************************************************************)
(* Claims about analyzeSignatureLocal                                      *)
(***************************************************************************)
\* Every stroke list of the pipeline, and the strokes handed to resolve.
TrStrokeLists ==
    << trRawStrokes, trOrderedStrokes, trMergedStrokes, trSmoothedStrokes,
       trFinalStrokes >>
    \o [i \in 1..Len(trResult) |-> trResult[i].strokes]

InBounds(p) == p.x >= 0 /\ p.x <= OUTPUT_SCALE /\ p.y >= 0 /\ p.y <= OUTPUT_SCALE

\* C1: every point of every stroke has x and y in 0..10000: the points the
\* walker records, and the points after ordering, merging, smoothing and the
\* filters of the post-processing, up to the strokes that are resolved.
C1_CoordinateBounds ==
    /\ \A r \in 1..Len(trStrokePoints) : InBounds(trStrokePoints[r].point)
    /\ \A l \in 1..Len(TrStrokeLists) :
          \A s \in 1..Len(TrStrokeLists[l]) :
             \A k \in 1..Len(TrStrokeLists[l][s].points) :
                InBounds(TrStrokeLists[l][s].points[k])

\* An analysis was resolved with a stroke that holds a smoothed point and
\* reaches into the right half of the image, below the first row.
C1_Witness ==
    /\ trOutcome = "resolved"
    /\ \E s \in 1..Len(trResult[1].strokes) :
          /\ Len(trResult[1].strokes[s].points) >= 3
          /\ \E k \in 1..Len(trResult[1].strokes[s].points) :
                /\ trResult[1].strokes[s].points[k].x > 5000
                /\ trResult[1].strokes[s].points[k].y > 0

\* No cell of the mask is ink, consumed or not.
AllBackground(visited, n) == \A i \in 0..(n - 1) : visited[i] = 0

StageDone(stage) == \E i \in 1..Len(trStages) : trStages[i] = stage

\* C5: on an all-background mask the walker leaves no raw stroke; when there
\* is no raw stroke, or every stroke was rejected by the post-processing,
\* the promise is not rejected, and it is resolved with an empty list of
\* strokes.
C5_EmptyIsNotAnError ==
    /\ (StageDone("walk") /\ AllBackground(trVisited, trPWidth * trPHeight))
          => trRawStrokes = <<>>
    /\ (StageDone("post") /\ trRawStrokes = <<>>) => trFinalStrokes = <<>>
    /\ (StageDone("post") /\ trFinalStrokes = <<>>) =>
          /\ trOutcome # "rejected"
          /\ trPc = "done" => (trOutcome = "resolved" /\ trResult[1].strokes = <<>>)

\* A blank image was resolved with no strokes.
C5_Witness ==
    /\ trPc = "done" /\ trOutcome = "resolved"
    /\ \A i \in 0..(trImage.width * trImage.height - 1) : trImage.data[i] = White
    /\ trRawStrokes = <<>>
    /\ trResult[1].strokes = <<>>

AllStages == <<"mask", "walk", "order", "merge", "smooth", "post">>

\* The promise is pending, resolved or rejected; it is resolved only when
\* every stage has completed, with the analysis built from finalStrokes;
\* nothing is delivered otherwise; and when the handler has ended, the
\* promise is settled, rejected if a stage was not completed.
C6_Settled ==
    /\ trOutcome \in {"pending", "resolved", "rejected"}
    /\ trOutcome = "resolved" =>
          /\ trStages = AllStages
          /\ trResult = << [strokes |-> trFinalStrokes,
                            original_size |-> <<trImage.width, trImage.height>>] >>
    /\ trOutcome # "resolved" => trResult = <<>>
    /\ trPc = "done" => trOutcome \in {"resolved", "rejected"}
    /\ (trPc = "done" /\ trStages # AllStages) => trOutcome = "rejected"

\* C6: every invocation ends resolved or rejected, never both and never
\* changing once settled; it is resolved only after all stages, a load
\* failure or an exception rejects it, and no analysis is delivered unless
\* it is resolved.
C6_OneOutcome ==
    /\ []C6_Settled
    /\ [][trOutcome # "pending" => trOutcome' = trOutcome]_vars
    /\ <>(trPc = "done")

\* The handler threw after the image had loaded, and the promise was
\* rejected with nothing delivered.
C6_Witness ==
    /\ trPc = "done" /\ trOutcome = "rejected"
    /\ trPWidth > 0
    /\ trResult = <<>>

\* Neither safety counter passes its limit, and a stroke that was cut at the
\* limit does not reject the promise.
C7_Capped ==
    /\ trSafetyCounter <= SAFETY_LIMIT
    /\ trStrokeSafety <= SAFETY_LIMIT
    /\ \A s \in 1..Len(trRawStrokes) :
          /\ Len(trRawStrokes[s].points) <= SAFETY_LIMIT
          /\ Len(trRawStrokes[s].points) = SAFETY_LIMIT => trOutcome # "rejected"

C12_AtLeastTwoPoints ==
    /\ \A s \in 1..Len(trFinalStrokes) : Len(trFinalStrokes[s].points) >= 2
    /\ \A r \in 1..Len(trResult) :
          \A s \in 1..Len(trResult[r].strokes) :
             Len(trResult[r].strokes[s].points) >= 2

\* An analysis was resolved with a stroke of exactly 2 points, cut down by
\* the simplification from a longer smoothed stroke, and no stall of the
\* walker was involved.
C12_Witness ==
    /\ trPc = "done" /\ trOutcome = "resolved"
    /\ trSafetyCounter < SAFETY_LIMIT
    /\ Len(trSmoothedStrokes) = 1
    /\ Len(trSmoothedStrokes[1].points) > 3
    /\ Len(trResult[1].strokes) = 1
    /\ Len(trResult[1].strokes[1].points) = 2

\* The cells of unconsumed ink.
Unconsumed(visited) == {i \in DOMAIN visited : visited[i] = 1}

\* An iteration of the inner loop of the walker.
WalkerSteps == trPc = "walk" /\ trStrokeSafety' = trStrokeSafety + 1

\* C19, as stated: every step of the walker consumes at least one cell of
\* unconsumed ink, so their number goes down with every step and no step is
\* taken again at the same position over the same mask.
C19_EveryStepConsumes ==
    [][WalkerSteps =>
          /\ Cardinality(Unconsumed(trVisited')) < Cardinality(Unconsumed(trVisited))
          /\ ~(trVisited' = trVisited /\ trCurrentPos' = trCurrentPos /\ trTracing')
      ]_vars

\* The walker stands where its last step has left the mask and the position
\* as they were, with unconsumed ink in its search window: its next steps
\* repeat that step until the counter of the inner loop is at its limit.
C19_Stalled ==
    /\ trPc = "walk" /\ trTracing
    /\ trStrokeSafety >= 2 /\ trStrokeSafety < SAFETY_LIMIT
    /\ Consume(trVisited, RoundDiv(trCurrentPos.sumX, trCurrentPos.count),
               RoundDiv(trCurrentPos.sumY, trCurrentPos.count), trPWidth) = trVisited
    /\ Centroid(trVisited, RoundDiv(trCurrentPos.sumX, trCurrentPos.count),
                RoundDiv(trCurrentPos.sumY, trCurrentPos.count), trPWidth, trPHeight)
          = trCurrentPos
    /\ Unconsumed(trVisited) # {}

\* C20: the seed scan goes through the cells in raster order and passes no
\* unconsumed ink: no cell before globalSearchIdx is unconsumed ink, and
\* when the outer loop has ended because the scan found no seed, no cell of
\* the mask is unconsumed ink.
C20_SeedScanComplete ==
    /\ \A i \in DOMAIN trVisited : i < trGlobalSearchIdx => trVisited[i] # 1
    /\ (StageDone("walk") /\ ~trActive) => Unconsumed(trVisited) = {}

\* The walk is over without the cap of the outer loop: the scan resumed after
\* a first stroke, found the seed of a second one further on, and then ran
\* to the end of the mask; both strokes were kept.
C20_Witness ==
    /\ StageDone("walk") /\ ~trActive
    /\ trSafetyCounter = 3
    /\ Len(trRawStrokes) = 2
    /\ trGlobalSearchIdx = trPWidth * trPHeight
    /\ \E i \in DOMAIN trVisited : trVisited[i] = 2
    /\ \E i \in DOMAIN trVisited : trVisited[i] = 0

\* The cell at column bx and row by lies in the mask and holds ink.
InkAt(bitmask, bx, by, width, height) ==
    /\ bx >= 0 /\ bx < width /\ by >= 0 /\ by < height
    /\ bitmask[by * width + bx] > 0

\* The 3 x 3 neighbourhood of the sample's cell, cut at the edges of the
\* mask, holds ink.
InkInNeighbourhood(s, bitmask, width, height) ==
    \E ry \in -1..1 : \E rx \in -1..1 :
        InkAt(bitmask, ((s.x * width) \div OUTPUT_SCALE) + rx,
              ((s.y * height) \div OUTPUT_SCALE) + ry, width, height)

\* The samples of the stroke that fall into the mask, and those of them with
\* ink in their neighbourhood.
StrokeChecks(points, width, height) ==
    SumRange([i \in 1..(Len(points) - 1) |-> SegmentChecks(points, i, width, height)],
             1, Len(points) - 1)
StrokeNearInk(points, bitmask, width, height) ==
    SumRange([i \in 1..(Len(points) - 1) |->
                 Len(SelectSeq(CoverageSamples(points, i, width),
                               LAMBDA s : SampleChecked(s, width, height)
                                          /\ InkInNeighbourhood(s, bitmask, width, height)))],
             1, Len(points) - 1)
StrokeHits(points, bitmask, width, height) ==
    SumRange([i \in 1..(Len(points) - 1) |->
                 SegmentHits(points, i, bitmask, width, height)],
             1, Len(points) - 1)

\* C18, as stated: every stroke of the final list has a sample in the mask,
\* and at least 55% of its samples in the mask have ink in the 3 x 3
\* neighbourhood of their cell; any other stroke is dropped.
C18_CoverageGate ==
    \A i \in 1..Len(trFinalStrokes) :
        /\ StrokeChecks(trFinalStrokes[i].points, trPWidth, trPHeight) > 0
        /\ 100 * StrokeNearInk(trFinalStrokes[i].points, trVisited, trPWidth, trPHeight)
             >= 55 * StrokeChecks(trFinalStrokes[i].points, trPWidth, trPHeight)

\* On the narrow page a stroke is in the final list with 14 hits out of 18
\* samples, 5 of them on ink of the row above or below at the other edge of
\* the page: 9 samples out of 18 have ink in their neighbourhood.
C18_HitsAcrossTheEdge ==
    /\ trPWidth = 7 /\ trPHeight = 28
    /\ \E i \in 1..Len(trFinalStrokes) :
          /\ StrokeChecks(trFinalStrokes[i].points, trPWidth, trPHeight) = 18
          /\ StrokeHits(trFinalStrokes[i].points, trVisited, trPWidth, trPHeight) = 14
          /\ StrokeNearInk(trFinalStrokes[i].points, trVisited, trPWidth, trPHeight) = 9

\* C21: a cell of the mask only goes from unconsumed ink to background
\* (despeckling, before the walker) or from unconsumed ink to consumed (a
\* step of the walker): the mask the walker starts on holds ink only where
\* the image does, a background cell never becomes ink, a consumed cell
\* stays consumed, and ordering, merging, smoothing, post-processing and
\* the coverage validation leave the mask as it is.
C21_MaskOneWay ==
    [][/\ trPc = "loading" =>
            \A i \in DOMAIN trVisited' :
                \/ trVisited'[i] = 0
                \/ trVisited'[i] = 1 /\ IsInk(trImage.data[i])
       /\ trPc # "loading" =>
            /\ DOMAIN trVisited' = DOMAIN trVisited
            /\ \A i \in DOMAIN trVisited :
                  \/ trVisited'[i] = trVisited[i]
                  \/ trPc = "walk" /\ trVisited[i] = 1 /\ trVisited'[i] = 2
      ]_vars

\* The pipeline is through on an image of which despeckling removed ink and
\* the walker consumed ink.
C21_Witness ==
    /\ trPc = "done" /\ trOutcome = "resolved"
    /\ \E i \in DOMAIN trVisited : IsInk(trImage.data[i]) /\ trVisited[i] = 0
    /\ \E i \in DOMAIN trVisited : trVisited[i] = 2
    /\ \E i \in DOMAIN trVisited : ~IsInk(trImage.data[i])

\* The points of strokes from..to, one stroke after the other.
RECURSIVE AllPoints(_, _, _)
AllPoints(strokes, from, to) ==
    IF from > to THEN <<>>
    ELSE strokes[from].points \o AllPoints(strokes, from + 1, to)

\* The gap before stroke i: from the last point of the stroke before it to
\* its first point, squared.
GapBefore(strokes, i) ==
    distSq(strokes[i - 1].points[Len(strokes[i - 1].points)], strokes[i].points[1])

\* The strokes of the ordered list that begin a merged stroke: the first,
\* and every stroke that lies 300 units or more after the end of the stroke
\* before it.
RunStarts(orderedStrokes) ==
    {i \in 1..Len(orderedStrokes) :
        i = 1 \/ GapBefore(orderedStrokes, i) >= MERGE_THRESHOLD_SQ}

\* The k-th of them, and the last stroke of its run.
RunStart(orderedStrokes, k) ==
    CHOOSE i \in RunStarts(orderedStrokes) :
        Cardinality({j \in RunStarts(orderedStrokes) : j < i}) = k - 1
RunEnd(orderedStrokes, k) ==
    IF k = Cardinality(RunStarts(orderedStrokes)) THEN Len(orderedStrokes)
    ELSE RunStart(orderedStrokes, k + 1) - 1

\* C22: the merge step joins the next ordered stroke to the current one
\* exactly when it begins less than 300 units after the current stroke's last
\* point: the merged strokes are the runs of the ordered list cut where that
\* gap is 300 or more, consecutive merged strokes are at least 300 units
\* apart end to start, and the points of the merged list, in order, are the
\* points of the ordered list.
C22_MergeByGap ==
    [][trPc = "merge" =>
          /\ Len(trMergedStrokes') = Cardinality(RunStarts(trOrderedStrokes))
          /\ \A k \in 1..Len(trMergedStrokes') :
                trMergedStrokes'[k].points =
                    AllPoints(trOrderedStrokes, RunStart(trOrderedStrokes, k),
                              RunEnd(trOrderedStrokes, k))
          /\ \A k \in 2..Len(trMergedStrokes') :
                GapBefore(trMergedStrokes', k) >= MERGE_THRESHOLD_SQ
          /\ AllPoints(trMergedStrokes', 1, Len(trMergedStrokes'))
                = AllPoints(trOrderedStrokes, 1, Len(trOrderedStrokes))
      ]_vars

\* Four ordered strokes were merged into two: the second and the third were
\* joined to the first, stroke after stroke, and the fourth was not.
C22_Witness ==
    /\ StageDone("merge")
    /\ Len(trOrderedStrokes) = 4 /\ Len(trMergedStrokes) = 2
    /\ GapBefore(trOrderedStrokes, 2) < MERGE_THRESHOLD_SQ
    /\ GapBefore(trOrderedStrokes, 3) < MERGE_THRESHOLD_SQ
    /\ GapBefore(trOrderedStrokes, 4) >= MERGE_THRESHOLD_SQ
    /\ Len(trMergedStrokes[1].points) = 24

\* The stroke with its points in reverse order.
Reversed(stroke) == [stroke EXCEPT !.points = Reverse(stroke.points)]

\* The squared distances from point e to the first and to the last point of
\* the stroke, and the smaller of the two.
ToStart(e, stroke) == distSq(e, stroke.points[1])
ToEnd(e, stroke) == distSq(e, stroke.points[Len(stroke.points)])
ToNearestEnd(e, stroke) == Min(ToStart(e, stroke), ToEnd(e, stroke))

\* The sequence h is a nearest-endpoint chain of the strokes m taken in the
\* order pick: it begins with a stroke of smallest leftmost x, in either
\* direction, and every later stroke is one of the strokes not yet taken
\* that has an end point nearest to the last point of the chain, reversed
\* exactly when its end is strictly nearer than its start.
NearestChain(m, h, pick) ==
    /\ \A i \in 1..Len(m) : getMeta(m[pick[1]]).minX <= getMeta(m[i]).minX
    /\ h[1] \in {m[pick[1]], Reversed(m[pick[1]])}
    /\ \A k \in 2..Len(m) :
          /\ \A j \in k..Len(m) :
                ToNearestEnd(h[k - 1].points[Len(h[k - 1].points)], m[pick[k]])
                  <= ToNearestEnd(h[k - 1].points[Len(h[k - 1].points)], m[pick[j]])
          /\ h[k] = IF ToEnd(h[k - 1].points[Len(h[k - 1].points)], m[pick[k]])
                        < ToStart(h[k - 1].points[Len(h[k - 1].points)], m[pick[k]])
                    THEN Reversed(m[pick[k]])
                    ELSE m[pick[k]]

\* C26: the neutral variant of the solver seeds its sequence with a stroke
\* of smallest leftmost x, appends at every step a stroke of the pool with
\* an end point nearest to the end of the chain, reversed exactly when its
\* end is strictly nearer than its start, and goes on until the pool is
\* empty.
C26_NeutralNearestEndpoint ==
    osPc = "returned" =>
        /\ Len(osH1) = Len(mainStrokes(osStrokes))
        /\ Len(osH1) > 0 =>
              \E pick \in Permutations(1..Len(osH1)) :
                  NearestChain(mainStrokes(osStrokes), osH1, pick)

\* The neutral sequence of three main strokes takes them in another order
\* than the input, the last one reversed.
C26_Witness ==
    /\ osPc = "returned"
    /\ Len(mainStrokes(osStrokes)) = 3 /\ Len(osH1) = 3
    /\ osH1[1] # mainStrokes(osStrokes)[1]
    /\ \A i \in 1..3 : osH1[3] # mainStrokes(osStrokes)[i]
    /\ \E i \in 1..3 : osH1[3] = Reversed(mainStrokes(osStrokes)[i])

\* The shortest distance at which one of the four axis-aligned rays from
\* (cx, cy) leaves the image or reaches a background cell.
RayReach(visited, cx, cy, pWidth, pHeight) ==
    CHOOSE r \in 1..(pWidth + pHeight) :
        /\ HitBg(visited, cx, cy, r, pWidth, pHeight)
        /\ \A q \in 1..(r - 1) : ~HitBg(visited, cx, cy, q, pWidth, pHeight)

\* The cell the walker stands on.
WalkerCx == RoundDiv(trCurrentPos.sumX, trCurrentPos.count)
WalkerCy == RoundDiv(trCurrentPos.sumY, trCurrentPos.count)

\* The ink cells, consumed or not, within PEN_RADIUS rows and columns of the
\* walker's cell, as <<x, y>>.
InkAround ==
    {c \in ((WalkerCx - PEN_RADIUS)..(WalkerCx + PEN_RADIUS))
              \X ((WalkerCy - PEN_RADIUS)..(WalkerCy + PEN_RADIUS)) :
        /\ c[1] >= 0 /\ c[1] < trPWidth /\ c[2] >= 0 /\ c[2] < trPHeight
        /\ trVisited[c[2] * trPWidth + c[1]] # 0}

\* C28, as stated: the z of the point a step of the walker pushes is
\* 2 * r / pWidth * OUTPUT_SCALE (here times pWidth), r being the shortest
\* distance at which a ray from the walker's cell reaches background or the
\* border, and no ink cell around it that is nearer the edge has a larger
\* thickness.
C28_ThicknessIsRayReach ==
    [][WalkerSteps =>
          /\ trStrokePoints'[Len(trStrokePoints')].point.z
                = 2 * RayReach(trVisited, WalkerCx, WalkerCy, trPWidth, trPHeight)
                    * OUTPUT_SCALE
          /\ \A c \in InkAround :
                RayReach(trVisited, c[1], c[2], trPWidth, trPHeight)
                   <= RayReach(trVisited, WalkerCx, WalkerCy, trPWidth, trPHeight)
                => Radius(trVisited, c[1], c[2], trPWidth, trPHeight)
                      <= Radius(trVisited, WalkerCx, WalkerCy, trPWidth, trPHeight)
      ]_vars

\* The walker is about to push a point on a cell from which no ray reaches
\* background or the border within 19 cells, next to an ink cell two cells
\* from the edge: the radius of the deep cell is 1, that of the other 2.
C28_DeepPointThinnest ==
    /\ trPc = "walk" /\ InnerLoopRuns(trTracing, trStrokeSafety)
    /\ RayReach(trVisited, WalkerCx, WalkerCy, trPWidth, trPHeight) > 19
    /\ Radius(trVisited, WalkerCx, WalkerCy, trPWidth, trPHeight) = 1
    /\ \E c \in InkAround :
          /\ RayReach(trVisited, c[1], c[2], trPWidth, trPHeight) = 2
          /\ Radius(trVisited, c[1], c[2], trPWidth, trPHeight) = 2

(***************************************************************************)
(* Claims about the post-processing loop                                   *)
(***************************************************************************)
\* The iteration that has just ended pushed its stroke.
Pushed == ppIndex' = ppIndex + 1 /\ ppFinalStrokes' # ppFinalStrokes

\* C13, as stated: a stroke with fewer than 3 points at any checkpoint (after
\* the dedup, the on-ink filter, the jitter filter, the simplification) is
\* discarded, so no stroke of the final list has fewer than 3 points.
C13_NoShortFinalStroke ==
    \A s \in 1..Len(ppFinalStrokes) : Len(ppFinalStrokes[s].points) >= 3

\* C13, amended: a stroke with fewer than 3 points after the dedup, after the
\* on-ink filter or after the jitter filter is discarded; after the
\* simplification there is no checkpoint, so a stroke that is pushed holds
\* the simplified points, which may be as few as 2, and every stroke of the
\* final list has at least 2 points.
C13_CheckpointsBeforeSimplification ==
    /\ [](\A s \in 1..Len(ppFinalStrokes) : Len(ppFinalStrokes[s].points) >= 2)
    /\ [][Pushed =>
            /\ Len(ppDeduped') >= 3
            /\ Len(ppOnInkPoints') >= 3
            /\ Len(ppJitterFreePoints') >= 3
            /\ Len(ppFinalPoints') >= 2
            /\ ppFinalStrokes' =
                  Append(ppFinalStrokes,
                         [ppSmoothedStrokes[ppIndex'] EXCEPT !.points = ppFinalPoints'])
         ]_vars

\* The loop pushed a stroke that the simplification had cut down to 2 points
\* and then dropped a stroke that had 4 points after the dedup and the on-ink
\* filter and 2 after the jitter filter.
C13_Witness ==
    /\ ppIndex = 2 /\ ppExit = "jitter"
    /\ Len(ppDeduped) = 4 /\ Len(ppOnInkPoints) = 4 /\ Len(ppJitterFreePoints) = 2
    /\ Len(ppFinalStrokes) = 1
    /\ Len(ppFinalStrokes[1].points) = 2
    /\ Len(ppSmoothedStrokes[1].points) = 4

\* C14: a stroke that survives the loop starts with the first point of its
\* jitter-filtered sequence and ends with the last one; so does the
\* simplified sequence of a stroke that the coverage gate drops.
C14_EndpointsKept ==
    /\ ppExit \in {"pushed", "uncovered"} =>
          /\ ppFinalPoints[1] = ppJitterFreePoints[1]
          /\ ppFinalPoints[Len(ppFinalPoints)] =
                ppJitterFreePoints[Len(ppJitterFreePoints)]
    /\ ppExit = "pushed" =>
          /\ ppFinalStrokes[Len(ppFinalStrokes)].points[1] = ppJitterFreePoints[1]
          /\ ppFinalStrokes[Len(ppFinalStrokes)].points[
                 Len(ppFinalStrokes[Len(ppFinalStrokes)].points)] =
                ppJitterFreePoints[Len(ppJitterFreePoints)]

\* A stroke was pushed after the simplification had taken one of its 5
\* jitter-free points out and kept two points between the ends.
C14_Witness ==
    /\ ppExit = "pushed"
    /\ Len(ppJitterFreePoints) = 5
    /\ Len(ppFinalStrokes[Len(ppFinalStrokes)].points) = 4
    /\ ppFinalStrokes[Len(ppFinalStrokes)].points[2] = ppJitterFreePoints[3]

\* C23, as stated: among the points the dedup keeps, no two consecutive
\* points coincide or lie less than 10 units (100 units squared) apart.
C23_NoDegenerateSegment ==
    \A i \in 2..Len(ppDeduped) : distSq(ppDeduped[i], ppDeduped[i - 1]) >= 100

\* What the filter does give: every point it keeps but the first lies more
\* than 10 units from the point before it in the smoothed stroke.
C23_FarFromPredecessor ==
    [][ppIndex' = ppIndex + 1 =>
          \E kept \in SUBSET (1..Len(ppSmoothedStrokes[ppIndex'].points)) :
              /\ ppDeduped' = FilterIdx(ppSmoothedStrokes[ppIndex'].points, kept)
              /\ \A i \in 1..Len(ppSmoothedStrokes[ppIndex'].points) :
                    i \in kept <=>
                        \/ i = 1
                        \/ distSq(ppSmoothedStrokes[ppIndex'].points[i],
                                  ppSmoothedStrokes[ppIndex'].points[i - 1]) > 100
      ]_vars

\* The dedup has dropped points that crept away from a kept point, and kept
\* the next one, which lies 8 units from that kept point; the 4 points go on
\* to the later stages.
C23_FallsBack ==
    /\ ppIndex > 0 /\ ppExit # "short"
    /\ Len(ppSmoothedStrokes[ppIndex].points) = 7
    /\ Len(ppDeduped) = 4
    /\ distSq(ppDeduped[2], ppDeduped[1]) = 64

\* The iteration that has just ended got to the jitter filter.
JitterFiltered == ppIndex > 0 /\ ppExit \in {"jitter", "uncovered", "pushed"}

\* The interior points of seq that are spikes: both segments at the point
\* are shorter than 50 units, neither is of length 0, and they make a turn
\* of more than 90 degrees.
Spikes(seq) ==
    {i \in 2..(Len(seq) - 1) :
        /\ distSq(seq[i - 1], seq[i]) < 2500 /\ distSq(seq[i], seq[i + 1]) < 2500
        /\ distSq(seq[i - 1], seq[i]) > 0 /\ distSq(seq[i], seq[i + 1]) > 0
        /\ (seq[i].x - seq[i - 1].x) * (seq[i + 1].x - seq[i].x)
             + (seq[i].y - seq[i - 1].y) * (seq[i + 1].y - seq[i].y) < 0}

\* seq without its spikes.
WithoutSpikes(seq) == FilterIdx(seq, (1..Len(seq)) \ Spikes(seq))

\* C24, as stated: the result of filterJitter keeps the first and the last
\* point of its input and holds no spike, and filterJitter leaves its own
\* result as it is.
C24_SpikeFreeIdempotent ==
    JitterFiltered =>
        /\ ppJitterFreePoints[1] = ppOnInkPoints[1]
        /\ ppJitterFreePoints[Len(ppJitterFreePoints)] = ppOnInkPoints[Len(ppOnInkPoints)]
        /\ Spikes(ppJitterFreePoints) = {}
        /\ filterJitter(ppJitterFreePoints) = ppJitterFreePoints

\* C24, amended: filterJitter keeps the first and the last point of its
\* input; a list of fewer than 3 points comes back as it is; otherwise the
\* result is the input without its spikes, and without the spikes of what
\* that leaves when that has 3 points or more.  No third pass is made.
C24_TwoPasses ==
    JitterFiltered =>
        /\ ppJitterFreePoints[1] = ppOnInkPoints[1]
        /\ ppJitterFreePoints[Len(ppJitterFreePoints)] = ppOnInkPoints[Len(ppOnInkPoints)]
        /\ ppJitterFreePoints =
              IF Len(ppOnInkPoints) < 3 THEN ppOnInkPoints
              ELSE IF Len(WithoutSpikes(ppOnInkPoints)) < 3
              THEN WithoutSpikes(ppOnInkPoints)
              ELSE WithoutSpikes(WithoutSpikes(ppOnInkPoints))

\* Each of the two passes has dropped a point, and the 3 points that are
\* left hold a spike, which another call of filterJitter would drop.
C24_SpikeLeft ==
    /\ JitterFiltered
    /\ Len(ppOnInkPoints) = 5
    /\ Len(WithoutSpikes(ppOnInkPoints)) = 4
    /\ Len(ppJitterFreePoints) = 3
    /\ Spikes(ppJitterFreePoints) = {2}
    /\ Len(filterJitter(ppJitterFreePoints)) = 2

\* The iteration that has just ended got to the simplification.
Simplified == ppIndex > 0 /\ ppExit \in {"uncovered", "pushed"}

\* The squared distance of curr from the segment from prev to next exceeds
\* 30; when prev and next coincide, the segment is that one point.
FarFromSegment(prev, curr, next) ==
    IF distSq(next, prev) = 0 THEN distSq(curr, prev) > 30
    ELSE Deviates(prev, curr, next)

\* The points from i on that are kept, the last always.
RECURSIVE KeptByDeviation(_, _, _)
KeptByDeviation(points, i, kept) ==
    IF i >= Len(points) THEN Append(kept, points[Len(points)])
    ELSE KeptByDeviation(points, i + 1,
            IF FarFromSegment(kept[Len(kept)], points[i], points[i + 1])
            THEN Append(kept, points[i]) ELSE kept)

Rescaled == aePc = "started" /\ Len(mpResult) > 0 /\ naturalDuration(mpResult) > 0

\* The ratio start used.
UsedRatio == Ratio(targetMs(aeTargetDuration), naturalDuration(mpResult))

\* Every time of the scaled plan is the time of the planner's plan times the
\* one ratio; times within a path do not decrease; a path ends no later than
\* the next one starts.
ScaledInOrder ==
    /\ Len(aePaths) = Len(mpResult)
    /\ \A i \in 1..Len(aePaths) :
          /\ aePaths[i].startTime = Scaled(mpResult[i].startTime, UsedRatio)
          /\ aePaths[i].endTime = Scaled(mpResult[i].endTime, UsedRatio)
          /\ Len(aePaths[i].points) = Len(mpResult[i].points)
          /\ \A k \in 1..Len(aePaths[i].points) :
                aePaths[i].points[k].time = Scaled(mpResult[i].points[k].time, UsedRatio)
          /\ \A k \in 1..(Len(aePaths[i].points) - 1) :
                aePaths[i].points[k].time <= aePaths[i].points[k + 1].time
    /\ \A i \in 1..(Len(aePaths) - 1) : aePaths[i].endTime <= aePaths[i + 1].startTime

C29_NoRecordingAfterStop ==
    rcLastCall = "stop" => rcMediaRecorder # "recording"

\* stop() was the last call, no frame is requested and no timer is left, and
\* the recorder records: the timer of the start before has fired after stop.
C29_RecordsAfterStop ==
    /\ rcLastCall = "stop" /\ rcRafId = "null" /\ rcTimers = 0
    /\ rcMediaRecorder = "recording" /\ rcIsRecording

(***************************************************************************)
(* Claims about the analysis of an item                                    *)
(***************************************************************************)
\* C30, as stated: an analysis that is null stays null until a call of
\* performAnalysis completes; the step that ends it writes the result of
\* that call and the status "success", and is never the callback of
\* generateRapidInsight writing the analysis of an earlier call back.
C30_NullUntilAnalysisCompletes ==
    [][dzItem.analysis = <<>> /\ dzItem.analysis' # <<>>
         => ~dzItem.analysis'[1].insight /\ dzItem.status' = "success"]_vars

\* After a reset the item is idle and carries an analysis with an insight,
\* made from another image than the one now selected.
C30_StaleAnalysisBack ==
    /\ dzItem # <<>>
    /\ dzItem.status = "idle"
    /\ dzItem.analysis # <<>>
    /\ dzItem.analysis[1].insight
    /\ dzItem.analysis[1].image # getActiveImage(dzItem)

=============================================================================
